---- MODULE Spec2Model ----
(***************************************************************************)
(* Model of mroth/porcelain: the decoders of `git status --porcelain` in   *)
(* its v1 (statusv1) and v2 (statusv2) formats, each in LF mode (Parse)    *)
(* and NUL mode (ParseZ).                                                  *)
(*                                                                         *)
(* A byte is a one-character string, or one of the names NUL, LF, CR, TAB. *)
(* A []byte is a sequence of bytes.  Go indexes from 0: At and Slice take  *)
(* Go indices, and every index or slice expression of the code has an      *)
(* InRange / SliceOK test whose failure is the run-time panic of Go.       *)
(***************************************************************************)
EXTENDS Integers, Sequences, FiniteSets, TLC

NUL == "NUL"
LF  == "LF"
CR  == "CR"
TAB == "TAB"
SP  == " "
OOB == "OOB"

-----------------------------------------------------------------------------
(* Slices and the functions of package bytes that the code calls.          *)

InRange(s, i) == 0 <= i /\ i < Len(s)

At(s, i) == IF InRange(s, i) THEN s[i + 1] ELSE OOB

SliceOK(s, lo, hi) == 0 <= lo /\ lo <= hi /\ hi <= Len(s)

Slice(s, lo, hi) == IF SliceOK(s, lo, hi) THEN SubSeq(s, lo + 1, hi) ELSE <<>>

IndexByte(s, c) ==
    IF \E i \in 1..Len(s) : s[i] = c
    THEN (CHOOSE i \in 1..Len(s) : s[i] = c /\ \A j \in 1..(i - 1) : s[j] # c) - 1
    ELSE -1

HasPrefix(s, p) == Len(s) >= Len(p) /\ SubSeq(s, 1, Len(p)) = p

Index(s, sep) ==
    LET Hits == {i \in 0..(Len(s) - Len(sep)) : SubSeq(s, i + 1, i + Len(sep)) = sep}
    IN  IF Hits = {} THEN -1 ELSE CHOOSE i \in Hits : \A j \in Hits : i <= j

Cut(s, sep) ==
    LET i == Index(s, sep)
    IN  IF i = -1
        THEN [before |-> s, after |-> <<>>, found |-> FALSE]
        ELSE [before |-> SubSeq(s, 1, i),
              after  |-> SubSeq(s, i + Len(sep) + 1, Len(s)),
              found  |-> TRUE]

CutPrefix(s, p) ==
    IF HasPrefix(s, p)
    THEN [after |-> SubSeq(s, Len(p) + 1, Len(s)), found |-> TRUE]
    ELSE [after |-> s, found |-> FALSE]

RECURSIVE SplitN(_, _, _)
SplitN(s, c, n) ==
    IF n <= 1 THEN <<s>>
    ELSE LET i == IndexByte(s, c)
         IN  IF i = -1 THEN <<s>>
             ELSE <<SubSeq(s, 1, i)>> \o SplitN(SubSeq(s, i + 2, Len(s)), c, n - 1)

-----------------------------------------------------------------------------
(* The split functions.  A result is (advance, token, err) of the Go       *)
(* SplitFunc; has tells a nil token from an empty one, fault is a panic.   *)

NeedMore == [advance |-> 0, token |-> <<>>, has |-> FALSE, err |-> FALSE, fault |-> FALSE]

SplitErr == [advance |-> 0, token |-> <<>>, has |-> FALSE, err |-> TRUE, fault |-> FALSE]

Tok(adv, t, f) == [advance |-> adv, token |-> t, has |-> TRUE, err |-> FALSE, fault |-> f]

Faulted == [advance |-> 0, token |-> <<>>, has |-> FALSE, err |-> FALSE, fault |-> TRUE]

dropCR(data) ==
    IF Len(data) > 0 /\ data[Len(data)] = CR THEN SubSeq(data, 1, Len(data) - 1) ELSE data

ScanLines(data, atEOF) ==
    LET i == IndexByte(data, LF)
    IN  IF atEOF /\ Len(data) = 0 THEN NeedMore
        ELSE IF i >= 0 THEN Tok(i + 1, dropCR(Slice(data, 0, i)), ~SliceOK(data, 0, i))
        ELSE IF atEOF THEN Tok(Len(data), dropCR(data), FALSE)
        ELSE NeedMore

(* variant: when the second NUL of a rename/copy record is not yet in the   *)
(* buffer, split at the first NUL instead of asking for more               *)
porcelainv2ZSplitFunc_NoWait(data, atEOF) ==
    LET firstNUL == IndexByte(data, NUL)
    IN  IF firstNUL = -1
        THEN IF atEOF /\ Len(data) > 0 THEN Tok(Len(data), data, FALSE) ELSE NeedMore
        ELSE IF HasPrefix(data, <<"2", SP>>)
        THEN LET secondNUL == IndexByte(Slice(data, firstNUL + 1, Len(data)), NUL)
             IN  IF secondNUL = -1
                 THEN IF atEOF
                      THEN IF firstNUL + 1 < Len(data)
                           THEN Tok(Len(data), data, FALSE)
                           ELSE SplitErr
                      ELSE Tok(firstNUL + 1, Slice(data, 0, firstNUL), FALSE)
                 ELSE LET d == Slice(data, 0, firstNUL + 1 + secondNUL)
                      IN  Tok(Len(d) + 1, d, FALSE)
        ELSE LET d == Slice(data, 0, firstNUL)
             IN  Tok(Len(d) + 1, d, FALSE)

(* variant: at the end of the stream a rename/copy record that ends with   *)
(* its first NUL is returned as a token instead of being an error          *)
porcelainv2ZSplitFunc_EmitTruncated(data, atEOF) ==
    LET firstNUL == IndexByte(data, NUL)
    IN  IF firstNUL = -1
        THEN IF atEOF /\ Len(data) > 0 THEN Tok(Len(data), data, FALSE) ELSE NeedMore
        ELSE IF HasPrefix(data, <<"2", SP>>)
        THEN LET secondNUL == IndexByte(Slice(data, firstNUL + 1, Len(data)), NUL)
             IN  IF secondNUL = -1
                 THEN IF atEOF THEN Tok(Len(data), data, FALSE) ELSE NeedMore
                 ELSE LET d == Slice(data, 0, firstNUL + 1 + secondNUL)
                      IN  Tok(Len(d) + 1, d, FALSE)
        ELSE LET d == Slice(data, 0, firstNUL)
             IN  Tok(Len(d) + 1, d, FALSE)

(* variant: at the end of the stream the bytes after the last NUL are      *)
(* dropped instead of being returned as the final record                   *)
porcelainv2ZSplitFunc_DropFinal(data, atEOF) ==
    LET firstNUL == IndexByte(data, NUL)
    IN  IF firstNUL = -1 THEN NeedMore
        ELSE IF HasPrefix(data, <<"2", SP>>)
        THEN LET secondNUL == IndexByte(Slice(data, firstNUL + 1, Len(data)), NUL)
             IN  IF secondNUL = -1
                 THEN IF atEOF THEN SplitErr ELSE NeedMore
                 ELSE LET d == Slice(data, 0, firstNUL + 1 + secondNUL)
                      IN  Tok(Len(d) + 1, d, FALSE)
        ELSE LET d == Slice(data, 0, firstNUL)
             IN  Tok(Len(d) + 1, d, FALSE)

(* variant: without the test for the "2 " prefix, every record ends at its *)
(* first NUL                                                               *)
porcelainv2ZSplitFunc_FirstOnly(data, atEOF) ==
    LET firstNUL == IndexByte(data, NUL)
    IN  IF firstNUL = -1
        THEN IF atEOF /\ Len(data) > 0 THEN Tok(Len(data), data, FALSE) ELSE NeedMore
        ELSE LET d == Slice(data, 0, firstNUL)
             IN  Tok(Len(d) + 1, d, ~SliceOK(data, 0, firstNUL))

(* variant: after a simple record the cursor stops at the terminating NUL  *)
(* instead of moving past it                                               *)
porcelainv2ZSplitFunc_KeepCursor(data, atEOF) ==
    LET firstNUL == IndexByte(data, NUL)
    IN  IF firstNUL = -1
        THEN IF atEOF /\ Len(data) > 0 THEN Tok(Len(data), data, FALSE) ELSE NeedMore
        ELSE IF HasPrefix(data, <<"2", SP>>)
        THEN IF ~SliceOK(data, firstNUL + 1, Len(data)) THEN Faulted
             ELSE LET secondNUL == IndexByte(Slice(data, firstNUL + 1, Len(data)), NUL)
                  IN  IF secondNUL = -1
                      THEN IF atEOF
                           THEN IF firstNUL + 1 < Len(data)
                                THEN Tok(Len(data), data, FALSE)
                                ELSE SplitErr
                           ELSE NeedMore
                      ELSE LET d == Slice(data, 0, firstNUL + 1 + secondNUL)
                           IN  Tok(Len(d) + 1, d, ~SliceOK(data, 0, firstNUL + 1 + secondNUL))
        ELSE LET d == Slice(data, 0, firstNUL)
             IN  Tok(Len(d), d, ~SliceOK(data, 0, firstNUL))

porcelainv2ZSplitFunc(data, atEOF) ==
    LET firstNUL == IndexByte(data, NUL)
    IN  IF firstNUL = -1
        THEN IF atEOF /\ Len(data) > 0 THEN Tok(Len(data), data, FALSE) ELSE NeedMore
        ELSE IF HasPrefix(data, <<"2", SP>>)
        THEN IF ~SliceOK(data, firstNUL + 1, Len(data)) THEN Faulted
             ELSE LET secondNUL == IndexByte(Slice(data, firstNUL + 1, Len(data)), NUL)
                  IN  IF secondNUL = -1
                      THEN IF atEOF
                           THEN IF firstNUL + 1 < Len(data)
                                THEN Tok(Len(data), data, FALSE)
                                ELSE SplitErr
                           ELSE NeedMore
                      ELSE LET d == Slice(data, 0, firstNUL + 1 + secondNUL)
                           IN  Tok(Len(d) + 1, d, ~SliceOK(data, 0, firstNUL + 1 + secondNUL))
        ELSE LET d == Slice(data, 0, firstNUL)
             IN  Tok(Len(d) + 1, d, ~SliceOK(data, 0, firstNUL))

(* variant: only the X position is tested for 'R' and 'C'                  *)
isRenameOrCopyV1_XOnly(data) ==
    IF Len(data) >= 2
    THEN [rc |-> At(data, 0) = "R" \/ At(data, 0) = "C", fault |-> ~InRange(data, 0)]
    ELSE [rc |-> FALSE, fault |-> FALSE]

(* variant: the test without its len(data) >= 2 guard                      *)
isRenameOrCopyV1_NoLen(data) ==
    [rc    |-> At(data, 0) = "R" \/ At(data, 0) = "C" \/ At(data, 1) = "R" \/ At(data, 1) = "C",
     fault |-> \/ ~InRange(data, 0)
               \/ (At(data, 0) # "R" /\ At(data, 0) # "C" /\ ~InRange(data, 1))]

(* len(data) >= 2 && (data[0] == 'R' || data[0] == 'C' || data[1] == 'R' || *)
(* data[1] == 'C'): rc is the value of the test, fault an index out of     *)
(* range among those Go evaluates, left to right with short circuit        *)
isRenameOrCopyV1(data) ==
    IF Len(data) >= 2
    THEN [rc    |-> At(data, 0) = "R" \/ At(data, 0) = "C" \/ At(data, 1) = "R" \/ At(data, 1) = "C",
          fault |-> \/ ~InRange(data, 0)
                    \/ (At(data, 0) # "R" /\ At(data, 0) # "C" /\ ~InRange(data, 1))]
    ELSE [rc |-> FALSE, fault |-> FALSE]

(* variant: a simple record is returned with its terminating NUL           *)
porcelainv1ZSplitFunc_KeepNUL(data, atEOF) ==
    LET firstNUL == IndexByte(data, NUL)
    IN  IF firstNUL = -1
        THEN IF atEOF /\ Len(data) > 0 THEN Tok(Len(data), data, FALSE) ELSE NeedMore
        ELSE IF isRenameOrCopyV1(data).fault THEN Faulted
        ELSE IF isRenameOrCopyV1(data).rc
        THEN IF ~SliceOK(data, firstNUL + 1, Len(data)) THEN Faulted
             ELSE LET secondNUL == IndexByte(Slice(data, firstNUL + 1, Len(data)), NUL)
                  IN  IF secondNUL = -1
                      THEN IF atEOF
                           THEN IF firstNUL + 1 < Len(data)
                                THEN Tok(Len(data), data, FALSE)
                                ELSE SplitErr
                           ELSE NeedMore
                      ELSE LET totalLength == firstNUL + 1 + secondNUL
                           IN  Tok(totalLength + 1, Slice(data, 0, totalLength),
                                   ~SliceOK(data, 0, totalLength))
        ELSE Tok(firstNUL + 1, Slice(data, 0, firstNUL + 1), ~SliceOK(data, 0, firstNUL + 1))

porcelainv1ZSplitFunc(data, atEOF) ==
    LET firstNUL == IndexByte(data, NUL)
    IN  IF firstNUL = -1
        THEN IF atEOF /\ Len(data) > 0 THEN Tok(Len(data), data, FALSE) ELSE NeedMore
        ELSE IF isRenameOrCopyV1(data).fault THEN Faulted
        ELSE IF isRenameOrCopyV1(data).rc
        THEN IF ~SliceOK(data, firstNUL + 1, Len(data)) THEN Faulted
             ELSE LET secondNUL == IndexByte(Slice(data, firstNUL + 1, Len(data)), NUL)
                  IN  IF secondNUL = -1
                      THEN IF atEOF
                           THEN IF firstNUL + 1 < Len(data)
                                THEN Tok(Len(data), data, FALSE)
                                ELSE SplitErr
                           ELSE NeedMore
                      ELSE LET totalLength == firstNUL + 1 + secondNUL
                           IN  Tok(totalLength + 1, Slice(data, 0, totalLength),
                                   ~SliceOK(data, 0, totalLength))
        ELSE Tok(firstNUL + 1, Slice(data, 0, firstNUL), ~SliceOK(data, 0, firstNUL))

(* the split function each entry point installs in its bufio.Scanner       *)
split(f, m, data, atEOF) ==
    IF m = "lf" THEN ScanLines(data, atEOF)
    ELSE IF f = "v2" THEN porcelainv2ZSplitFunc(data, atEOF)
    ELSE porcelainv1ZSplitFunc(data, atEOF)

-----------------------------------------------------------------------------
(* Numbers: strconv.ParseUint(s, 8, 32), strconv.ParseInt(s, 10, 0) and    *)
(* the "%d" verb of fmt.Sscanf.  Values are computed digit by digit; the   *)
(* numeric fields of the modelled inputs are a few digits long.            *)

DigitOf == [c \in {"0", "1", "2", "3", "4", "5", "6", "7", "8", "9"} |->
              CASE c = "0" -> 0 [] c = "1" -> 1 [] c = "2" -> 2 [] c = "3" -> 3
                [] c = "4" -> 4 [] c = "5" -> 5 [] c = "6" -> 6 [] c = "7" -> 7
                [] c = "8" -> 8 [] c = "9" -> 9]

IsDigit(c, base) == c \in DOMAIN DigitOf /\ DigitOf[c] < base

RECURSIVE NumVal(_, _)
NumVal(ds, base) ==
    IF Len(ds) = 0 THEN 0
    ELSE NumVal(SubSeq(ds, 1, Len(ds) - 1), base) * base + DigitOf[ds[Len(ds)]]

RECURSIVE StripZeros(_)
StripZeros(ds) ==
    IF Len(ds) > 0 /\ ds[1] = "0" THEN StripZeros(SubSeq(ds, 2, Len(ds))) ELSE ds

(* ParseUint(s, 8, 32): ErrSyntax on "" or a non-octal byte, ErrRange      *)
(* above 2^32 - 1 = 0o37777777777                                          *)
ParseUintOctal32(s) ==
    LET sig == StripZeros(s)
    IN  IF Len(s) = 0 \/ \E i \in 1..Len(s) : ~IsDigit(s[i], 8)
        THEN [ok |-> FALSE, val |-> 0]
        ELSE IF Len(sig) > 11 \/ (Len(sig) = 11 /\ DigitOf[sig[1]] > 3)
        THEN [ok |-> FALSE, val |-> 0]
        ELSE [ok |-> TRUE, val |-> NumVal(sig, 8)]

(* ParseInt(s, 10, 0): optional sign, then decimal digits only             *)
ParseIntDec(s) ==
    LET signed == Len(s) > 0 /\ (s[1] = "+" \/ s[1] = "-")
        ds     == IF signed THEN SubSeq(s, 2, Len(s)) ELSE s
        sig    == StripZeros(ds)
    IN  IF Len(ds) = 0 \/ \E i \in 1..Len(ds) : ~IsDigit(ds[i], 10)
        THEN [ok |-> FALSE, val |-> 0]
        ELSE IF Len(sig) > 18
        THEN [ok |-> FALSE, val |-> 0]
        ELSE [ok |-> TRUE,
              val |-> IF signed /\ s[1] = "-" THEN 0 - NumVal(sig, 10) ELSE NumVal(sig, 10)]

IsScanSpace(c) == c = SP \/ c = TAB \/ c = CR

RECURSIVE SkipSpace(_)
SkipSpace(s) ==
    IF Len(s) > 0 /\ IsScanSpace(s[1]) THEN SkipSpace(SubSeq(s, 2, Len(s))) ELSE s

RECURSIVE NumberRun(_)
NumberRun(s) ==
    IF Len(s) > 0 /\ (IsDigit(s[1], 10) \/ s[1] = "_")
    THEN 1 + NumberRun(SubSeq(s, 2, Len(s)))
    ELSE 0

(* the verb %d: skip blanks (a newline is an error), an optional sign,     *)
(* a run of digits and underscores, converted by ParseInt(tok, 10, 64)     *)
ScanInt(s) ==
    LET s1     == SkipSpace(s)
        signed == Len(s1) > 0 /\ (s1[1] = "+" \/ s1[1] = "-")
        s2     == IF signed THEN SubSeq(s1, 2, Len(s1)) ELSE s1
        n      == NumberRun(s2)
        tok    == SubSeq(s1, 1, n + (IF signed THEN 1 ELSE 0))
        conv   == ParseIntDec(tok)
    IN  IF Len(s1) = 0 \/ n = 0 \/ ~conv.ok
        THEN [ok |-> FALSE, val |-> 0, rest |-> s]
        ELSE [ok |-> TRUE, val |-> conv.val, rest |-> SubSeq(s2, n + 1, Len(s2))]

(* fmt.Sscanf(value, "+%d -%d", &ahead, &behind): n is the number of       *)
(* operands assigned before the scan stopped                               *)
SscanfAB(value) ==
    LET Scanned(a, sp, b) ==
            IF Len(value) = 0 \/ value[1] # "+" \/ ~a.ok
            THEN [n |-> 0, ahead |-> 0, behind |-> 0]
            ELSE IF \/ (Len(a.rest) > 0 /\ ~IsScanSpace(a.rest[1]))
                    \/ Len(sp) = 0
                    \/ sp[1] # "-"
                    \/ ~b.ok
            THEN [n |-> 1, ahead |-> a.val, behind |-> 0]
            ELSE [n |-> 2, ahead |-> a.val, behind |-> b.val]
        Second(a, sp) == Scanned(a, sp, ScanInt(SubSeq(sp, 2, Len(sp))))
        First(a)      == Second(a, SkipSpace(a.rest))
    IN  First(ScanInt(SubSeq(value, 2, Len(value))))

-----------------------------------------------------------------------------
(* statusv2: the field decoders.  A decoder result is (entry, err) of the  *)
(* Go function: ok is err == nil, fault is a panic inside the decoder.     *)

NoEntry == [type |-> "none"]

DecodeErr == [ok |-> FALSE, entry |-> NoEntry, fault |-> FALSE]

DecodeFault == [ok |-> FALSE, entry |-> NoEntry, fault |-> TRUE]

parseXYFlag(field) ==
    IF Len(field) # 2
    THEN [ok |-> FALSE, xy |-> <<>>, fault |-> FALSE]
    ELSE [ok |-> TRUE, xy |-> <<At(field, 0), At(field, 1)>>,
          fault |-> ~InRange(field, 0) \/ ~InRange(field, 1)]

(* variant: a strict reader, a byte that is neither the flag letter of its  *)
(* position nor '.' (or 'N' at position 0) is an error                     *)
parseSubmoduleStatus_Strict(field) ==
    IF Len(field) # 4 \/ At(field, 0) \notin {"S", "N"} \/ At(field, 1) \notin {"C", "."}
                      \/ At(field, 2) \notin {"M", "."} \/ At(field, 3) \notin {"U", "."}
    THEN [ok |-> FALSE, sub |-> <<>>, fault |-> FALSE]
    ELSE [ok |-> TRUE,
          sub |-> [IsSubmodule      |-> At(field, 0) = "S",
                   CommitChanged    |-> At(field, 1) = "C",
                   HasModifications |-> At(field, 2) = "M",
                   HasUntracked     |-> At(field, 3) = "U"],
          fault |-> FALSE]

parseSubmoduleStatus(field) ==
    IF Len(field) # 4
    THEN [ok |-> FALSE, sub |-> <<>>, fault |-> FALSE]
    ELSE [ok |-> TRUE,
          sub |-> [IsSubmodule      |-> At(field, 0) = "S",
                   CommitChanged    |-> At(field, 1) = "C",
                   HasModifications |-> At(field, 2) = "M",
                   HasUntracked     |-> At(field, 3) = "U"],
          fault |-> \E i \in 0..3 : ~InRange(field, i)]

parseFileMode(field) ==
    LET r == ParseUintOctal32(field)
    IN  IF ~r.ok THEN [ok |-> FALSE, mode |-> 0] ELSE [ok |-> TRUE, mode |-> r.val]

(* fields[i] of a [][]byte                                                 *)
Field(fields, i) == IF InRange(fields, i) THEN fields[i + 1] ELSE <<>>

(* variant: the record is split at every space, the path is its ninth      *)
(* field only                                                              *)
parseChangedEntry_SplitAll(line) ==
    LET fields == SplitN(line, SP, Len(line) + 1)
        xy     == parseXYFlag(Field(fields, 1))
        sub    == parseSubmoduleStatus(Field(fields, 2))
        modeH  == parseFileMode(Field(fields, 3))
        modeI  == parseFileMode(Field(fields, 4))
        modeW  == parseFileMode(Field(fields, 5))
    IN  IF Len(fields) < 9 \/ ~HasPrefix(Field(fields, 0), <<"1">>) THEN DecodeErr
        ELSE IF ~InRange(fields, 1) \/ xy.fault THEN DecodeFault
        ELSE IF ~xy.ok THEN DecodeErr
        ELSE IF ~InRange(fields, 2) \/ sub.fault THEN DecodeFault
        ELSE IF ~sub.ok THEN DecodeErr
        ELSE IF \E i \in 3..5 : ~InRange(fields, i) THEN DecodeFault
        ELSE IF ~modeH.ok \/ ~modeI.ok \/ ~modeW.ok THEN DecodeErr
        ELSE IF \E i \in 6..8 : ~InRange(fields, i) THEN DecodeFault
        ELSE [ok |-> TRUE, fault |-> FALSE,
              entry |-> [type |-> "Changed", XY |-> xy.xy, Sub |-> sub.sub,
                         ModeH |-> modeH.mode, ModeI |-> modeI.mode, ModeW |-> modeW.mode,
                         HashH |-> Field(fields, 6), HashI |-> Field(fields, 7),
                         Path |-> Field(fields, 8)]]

parseChangedEntry(line) ==
    LET fields == SplitN(line, SP, 9)
        xy     == parseXYFlag(Field(fields, 1))
        sub    == parseSubmoduleStatus(Field(fields, 2))
        modeH  == parseFileMode(Field(fields, 3))
        modeI  == parseFileMode(Field(fields, 4))
        modeW  == parseFileMode(Field(fields, 5))
    IN  IF Len(fields) < 9 \/ ~HasPrefix(Field(fields, 0), <<"1">>) THEN DecodeErr
        ELSE IF ~InRange(fields, 1) \/ xy.fault THEN DecodeFault
        ELSE IF ~xy.ok THEN DecodeErr
        ELSE IF ~InRange(fields, 2) \/ sub.fault THEN DecodeFault
        ELSE IF ~sub.ok THEN DecodeErr
        ELSE IF \E i \in 3..5 : ~InRange(fields, i) THEN DecodeFault
        ELSE IF ~modeH.ok \/ ~modeI.ok \/ ~modeW.ok THEN DecodeErr
        ELSE IF \E i \in 6..8 : ~InRange(fields, i) THEN DecodeFault
        ELSE [ok |-> TRUE, fault |-> FALSE,
              entry |-> [type |-> "Changed", XY |-> xy.xy, Sub |-> sub.sub,
                         ModeH |-> modeH.mode, ModeI |-> modeI.mode, ModeW |-> modeW.mode,
                         HashH |-> Field(fields, 6), HashI |-> Field(fields, 7),
                         Path |-> Field(fields, 8)]]

(* variant: an empty original path is rejected like a missing separator    *)
parseRenameOrCopyEntry_NonEmptyOrig(line, pathSep) ==
    LET fields == SplitN(line, SP, 10)
        xy     == parseXYFlag(Field(fields, 1))
        sub    == parseSubmoduleStatus(Field(fields, 2))
        modeH  == parseFileMode(Field(fields, 3))
        modeI  == parseFileMode(Field(fields, 4))
        modeW  == parseFileMode(Field(fields, 5))
        paths  == Cut(Field(fields, 9), <<pathSep>>)
    IN  IF Len(fields) < 10 \/ ~HasPrefix(Field(fields, 0), <<"2">>) THEN DecodeErr
        ELSE IF ~xy.ok \/ ~sub.ok THEN DecodeErr
        ELSE IF ~modeH.ok \/ ~modeI.ok \/ ~modeW.ok THEN DecodeErr
        ELSE IF ~paths.found \/ Len(paths.after) = 0 THEN DecodeErr
        ELSE [ok |-> TRUE, fault |-> FALSE,
              entry |-> [type |-> "RenameOrCopy", XY |-> xy.xy, Sub |-> sub.sub,
                         ModeH |-> modeH.mode, ModeI |-> modeI.mode, ModeW |-> modeW.mode,
                         HashH |-> Field(fields, 6), HashI |-> Field(fields, 7),
                         Score |-> Field(fields, 8),
                         Path |-> paths.before, Orig |-> paths.after]]

parseRenameOrCopyEntry(line, pathSep) ==
    LET fields == SplitN(line, SP, 10)
        xy     == parseXYFlag(Field(fields, 1))
        sub    == parseSubmoduleStatus(Field(fields, 2))
        modeH  == parseFileMode(Field(fields, 3))
        modeI  == parseFileMode(Field(fields, 4))
        modeW  == parseFileMode(Field(fields, 5))
        paths  == Cut(Field(fields, 9), <<pathSep>>)
    IN  IF Len(fields) < 10 \/ ~HasPrefix(Field(fields, 0), <<"2">>) THEN DecodeErr
        ELSE IF ~InRange(fields, 1) \/ xy.fault THEN DecodeFault
        ELSE IF ~xy.ok THEN DecodeErr
        ELSE IF ~InRange(fields, 2) \/ sub.fault THEN DecodeFault
        ELSE IF ~sub.ok THEN DecodeErr
        ELSE IF \E i \in 3..5 : ~InRange(fields, i) THEN DecodeFault
        ELSE IF ~modeH.ok \/ ~modeI.ok \/ ~modeW.ok THEN DecodeErr
        ELSE IF \E i \in 6..9 : ~InRange(fields, i) THEN DecodeFault
        ELSE IF ~paths.found THEN DecodeErr
        ELSE [ok |-> TRUE, fault |-> FALSE,
              entry |-> [type |-> "RenameOrCopy", XY |-> xy.xy, Sub |-> sub.sub,
                         ModeH |-> modeH.mode, ModeI |-> modeI.mode, ModeW |-> modeW.mode,
                         HashH |-> Field(fields, 6), HashI |-> Field(fields, 7),
                         Score |-> Field(fields, 8),
                         Path |-> paths.before, Orig |-> paths.after]]

parseUnmergedEntry(line) ==
    LET fields == SplitN(line, SP, 11)
        xy     == parseXYFlag(Field(fields, 1))
        sub    == parseSubmoduleStatus(Field(fields, 2))
        mode1  == parseFileMode(Field(fields, 3))
        mode2  == parseFileMode(Field(fields, 4))
        mode3  == parseFileMode(Field(fields, 5))
        modeW  == parseFileMode(Field(fields, 6))
    IN  IF Len(fields) < 11 \/ ~HasPrefix(Field(fields, 0), <<"u">>) THEN DecodeErr
        ELSE IF ~InRange(fields, 1) \/ xy.fault THEN DecodeFault
        ELSE IF ~xy.ok THEN DecodeErr
        ELSE IF ~InRange(fields, 2) \/ sub.fault THEN DecodeFault
        ELSE IF ~sub.ok THEN DecodeErr
        ELSE IF \E i \in 3..6 : ~InRange(fields, i) THEN DecodeFault
        ELSE IF ~mode1.ok \/ ~mode2.ok \/ ~mode3.ok \/ ~modeW.ok THEN DecodeErr
        ELSE IF \E i \in 7..10 : ~InRange(fields, i) THEN DecodeFault
        ELSE [ok |-> TRUE, fault |-> FALSE,
              entry |-> [type |-> "Unmerged", XY |-> xy.xy, Sub |-> sub.sub,
                         Mode1 |-> mode1.mode, Mode2 |-> mode2.mode,
                         Mode3 |-> mode3.mode, ModeW |-> modeW.mode,
                         Hash1 |-> Field(fields, 7), Hash2 |-> Field(fields, 8),
                         Hash3 |-> Field(fields, 9), Path |-> Field(fields, 10)]]

parseUntrackedEntry(line) ==
    LET p == CutPrefix(line, <<"?", SP>>)
    IN  IF ~p.found THEN DecodeErr
        ELSE [ok |-> TRUE, fault |-> FALSE, entry |-> [type |-> "Untracked", Path |-> p.after]]

parseIgnoredEntry(line) ==
    LET p == CutPrefix(line, <<"!", SP>>)
    IN  IF ~p.found THEN DecodeErr
        ELSE [ok |-> TRUE, fault |-> FALSE, entry |-> [type |-> "Ignored", Path |-> p.after]]

-----------------------------------------------------------------------------
(* statusv2: headers.  Status.Branch and Status.Stash are pointers: <<>>   *)
(* is nil, <<b>> points to the block b.                                    *)

NewBranchInfo == [OID |-> <<>>, Head |-> <<>>, Upstream |-> <<>>, Ahead |-> 0, Behind |-> 0]

ensureBranch(branch) == IF branch = <<>> THEN <<NewBranchInfo>> ELSE branch

keyBranchOID      == <<"b", "r", "a", "n", "c", "h", ".", "o", "i", "d">>
keyBranchHead     == <<"b", "r", "a", "n", "c", "h", ".", "h", "e", "a", "d">>
keyBranchUpstream == <<"b", "r", "a", "n", "c", "h", ".", "u", "p", "s", "t", "r", "e", "a", "m">>
keyBranchAB       == <<"b", "r", "a", "n", "c", "h", ".", "a", "b">>
keyStash          == <<"s", "t", "a", "s", "h">>

(* fmt.Sscanf(value, "+%d -%d", &ensureBranch(s).Ahead, &ensureBranch(s).Behind): *)
(* the operands are evaluated, and the block allocated, before the scan    *)
scanBranchAB(branch, value) ==
    LET Assign(b, r) ==
            <<[b EXCEPT !.Ahead  = IF r.n >= 1 THEN r.ahead ELSE @,
                        !.Behind = IF r.n >= 2 THEN r.behind ELSE @]>>
    IN  Assign(ensureBranch(branch)[1], SscanfAB(value))

(* variant: the result `found` of bytes.Cut is not tested, a header        *)
(* without a space after its key has the empty value                       *)
parseHeaderEntry_NoFoundCheck(line, branch, stash) ==
    LET p   == CutPrefix(line, <<"#", SP>>)
        kv  == Cut(p.after, <<SP>>)
        key == kv.before
        n   == ParseIntDec(kv.after)
    IN  IF ~p.found THEN [Branch |-> branch, Stash |-> stash]
        ELSE IF key = keyBranchOID
        THEN [Branch |-> <<[ensureBranch(branch)[1] EXCEPT !.OID = kv.after]>>, Stash |-> stash]
        ELSE IF key = keyBranchHead
        THEN [Branch |-> <<[ensureBranch(branch)[1] EXCEPT !.Head = kv.after]>>, Stash |-> stash]
        ELSE IF key = keyBranchUpstream
        THEN [Branch |-> <<[ensureBranch(branch)[1] EXCEPT !.Upstream = kv.after]>>, Stash |-> stash]
        ELSE IF key = keyBranchAB
        THEN [Branch |-> scanBranchAB(branch, kv.after), Stash |-> stash]
        ELSE IF key = keyStash
        THEN IF ~n.ok THEN [Branch |-> branch, Stash |-> stash]
             ELSE [Branch |-> branch, Stash |-> <<[Count |-> n.val]>>]
        ELSE [Branch |-> branch, Stash |-> stash]

(* variant: ensureBranch(s) is called once, before the switch on the key   *)
parseHeaderEntry_Eager(line, branch, stash) ==
    LET p   == CutPrefix(line, <<"#", SP>>)
        kv  == Cut(p.after, <<SP>>)
        key == kv.before
        n   == ParseIntDec(kv.after)
        b   == ensureBranch(branch)
    IN  IF ~p.found \/ ~kv.found THEN [Branch |-> branch, Stash |-> stash]
        ELSE IF key = keyBranchOID
        THEN [Branch |-> <<[b[1] EXCEPT !.OID = kv.after]>>, Stash |-> stash]
        ELSE IF key = keyBranchHead
        THEN [Branch |-> <<[b[1] EXCEPT !.Head = kv.after]>>, Stash |-> stash]
        ELSE IF key = keyBranchUpstream
        THEN [Branch |-> <<[b[1] EXCEPT !.Upstream = kv.after]>>, Stash |-> stash]
        ELSE IF key = keyBranchAB
        THEN [Branch |-> scanBranchAB(b, kv.after), Stash |-> stash]
        ELSE IF key = keyStash
        THEN IF ~n.ok THEN [Branch |-> b, Stash |-> stash]
             ELSE [Branch |-> b, Stash |-> <<[Count |-> n.val]>>]
        ELSE [Branch |-> b, Stash |-> stash]

(* variant: every branch header starts from a new BranchInfo               *)
parseHeaderEntry_FreshBranch(line, branch, stash) ==
    LET p   == CutPrefix(line, <<"#", SP>>)
        kv  == Cut(p.after, <<SP>>)
        key == kv.before
        n   == ParseIntDec(kv.after)
    IN  IF ~p.found \/ ~kv.found THEN [Branch |-> branch, Stash |-> stash]
        ELSE IF key = keyBranchOID
        THEN [Branch |-> <<[NewBranchInfo EXCEPT !.OID = kv.after]>>, Stash |-> stash]
        ELSE IF key = keyBranchHead
        THEN [Branch |-> <<[NewBranchInfo EXCEPT !.Head = kv.after]>>, Stash |-> stash]
        ELSE IF key = keyBranchUpstream
        THEN [Branch |-> <<[NewBranchInfo EXCEPT !.Upstream = kv.after]>>, Stash |-> stash]
        ELSE IF key = keyBranchAB
        THEN [Branch |-> scanBranchAB(<<>>, kv.after), Stash |-> stash]
        ELSE IF key = keyStash
        THEN IF ~n.ok THEN [Branch |-> branch, Stash |-> stash]
             ELSE [Branch |-> branch, Stash |-> <<[Count |-> n.val]>>]
        ELSE [Branch |-> branch, Stash |-> stash]

(* parseHeaderEntry(line, s): the new (Branch, Stash) of s                 *)
parseHeaderEntry(line, branch, stash) ==
    LET p   == CutPrefix(line, <<"#", SP>>)
        kv  == Cut(p.after, <<SP>>)
        key == kv.before
        n   == ParseIntDec(kv.after)
    IN  IF ~p.found \/ ~kv.found THEN [Branch |-> branch, Stash |-> stash]
        ELSE IF key = keyBranchOID
        THEN [Branch |-> <<[ensureBranch(branch)[1] EXCEPT !.OID = kv.after]>>, Stash |-> stash]
        ELSE IF key = keyBranchHead
        THEN [Branch |-> <<[ensureBranch(branch)[1] EXCEPT !.Head = kv.after]>>, Stash |-> stash]
        ELSE IF key = keyBranchUpstream
        THEN [Branch |-> <<[ensureBranch(branch)[1] EXCEPT !.Upstream = kv.after]>>, Stash |-> stash]
        ELSE IF key = keyBranchAB
        THEN [Branch |-> scanBranchAB(branch, kv.after), Stash |-> stash]
        ELSE IF key = keyStash
        THEN IF ~n.ok THEN [Branch |-> branch, Stash |-> stash]
             ELSE [Branch |-> branch, Stash |-> <<[Count |-> n.val]>>]
        ELSE [Branch |-> branch, Stash |-> stash]

-----------------------------------------------------------------------------
(* statusv1: the entry decoders.                                           *)

arrow == <<SP, "-", ">", SP>>

(* variant: the " -> " marker is looked for only when X or Y is 'R' or 'C' *)
parseEntry_XYGated(line) ==
    LET xy       == parseXYFlag(Slice(line, 0, 2))
        pathPart == Slice(line, 3, Len(line))
        c        == Cut(pathPart, arrow)
        isRC     == xy.ok /\ (xy.xy[1] = "R" \/ xy.xy[1] = "C" \/ xy.xy[2] = "R" \/ xy.xy[2] = "C")
    IN  IF Len(line) < 3 THEN DecodeErr
        ELSE IF ~SliceOK(line, 0, 2) \/ xy.fault THEN DecodeFault
        ELSE IF ~xy.ok THEN DecodeErr
        ELSE IF ~InRange(line, 2) THEN DecodeFault
        ELSE IF At(line, 2) # SP THEN DecodeErr
        ELSE IF ~SliceOK(line, 3, Len(line)) THEN DecodeFault
        ELSE IF isRC /\ c.found
        THEN IF Len(c.before) = 0 \/ Len(c.after) = 0 THEN DecodeErr
             ELSE [ok |-> TRUE, fault |-> FALSE,
                   entry |-> [XY |-> xy.xy, Path |-> c.after, OrigPath |-> c.before]]
        ELSE [ok |-> TRUE, fault |-> FALSE,
              entry |-> [XY |-> xy.xy, Path |-> pathPart, OrigPath |-> <<>>]]

parseEntry(line) ==
    LET xy       == parseXYFlag(Slice(line, 0, 2))
        pathPart == Slice(line, 3, Len(line))
        c        == Cut(pathPart, arrow)
    IN  IF Len(line) < 3 THEN DecodeErr
        ELSE IF ~SliceOK(line, 0, 2) \/ xy.fault THEN DecodeFault
        ELSE IF ~xy.ok THEN DecodeErr
        ELSE IF ~InRange(line, 2) THEN DecodeFault
        ELSE IF At(line, 2) # SP THEN DecodeErr
        ELSE IF ~SliceOK(line, 3, Len(line)) THEN DecodeFault
        ELSE IF c.found
        THEN IF Len(c.before) = 0 \/ Len(c.after) = 0 THEN DecodeErr
             ELSE [ok |-> TRUE, fault |-> FALSE,
                   entry |-> [XY |-> xy.xy, Path |-> c.after, OrigPath |-> c.before]]
        ELSE [ok |-> TRUE, fault |-> FALSE,
              entry |-> [XY |-> xy.xy, Path |-> pathPart, OrigPath |-> <<>>]]

(* variant: the path part is cut at its first NUL whatever X and Y are     *)
parseEntryZ_AnyXY(entry) ==
    LET xy       == parseXYFlag(Slice(entry, 0, 2))
        pathPart == Slice(entry, 3, Len(entry))
        c        == Cut(pathPart, <<NUL>>)
    IN  IF Len(entry) < 3 THEN DecodeErr
        ELSE IF ~SliceOK(entry, 0, 2) \/ xy.fault THEN DecodeFault
        ELSE IF ~xy.ok THEN DecodeErr
        ELSE IF ~InRange(entry, 2) THEN DecodeFault
        ELSE IF At(entry, 2) # SP THEN DecodeErr
        ELSE IF ~SliceOK(entry, 3, Len(entry)) THEN DecodeFault
        ELSE IF c.found
        THEN [ok |-> TRUE, fault |-> FALSE,
              entry |-> [XY |-> xy.xy, Path |-> c.before, OrigPath |-> c.after]]
        ELSE [ok |-> TRUE, fault |-> FALSE,
              entry |-> [XY |-> xy.xy, Path |-> pathPart, OrigPath |-> <<>>]]

parseEntryZ(entry) ==
    LET xy       == parseXYFlag(Slice(entry, 0, 2))
        pathPart == Slice(entry, 3, Len(entry))
        c        == Cut(pathPart, <<NUL>>)
        isRC     == xy.ok /\ (xy.xy[1] = "R" \/ xy.xy[1] = "C" \/ xy.xy[2] = "R" \/ xy.xy[2] = "C")
    IN  IF Len(entry) < 3 THEN DecodeErr
        ELSE IF ~SliceOK(entry, 0, 2) \/ xy.fault THEN DecodeFault
        ELSE IF ~xy.ok THEN DecodeErr
        ELSE IF ~InRange(entry, 2) THEN DecodeFault
        ELSE IF At(entry, 2) # SP THEN DecodeErr
        ELSE IF ~SliceOK(entry, 3, Len(entry)) THEN DecodeFault
        ELSE IF isRC /\ c.found
        THEN [ok |-> TRUE, fault |-> FALSE,
              entry |-> [XY |-> xy.xy, Path |-> c.before, OrigPath |-> c.after]]
        ELSE [ok |-> TRUE, fault |-> FALSE,
              entry |-> [XY |-> xy.xy, Path |-> pathPart, OrigPath |-> <<>>]]

-----------------------------------------------------------------------------
(* The loop body of parse (statusv2) and of Parse / ParseZ (statusv1):     *)
(* what one token does to the Status under construction.  ok = FALSE is    *)
(* the `return nil, err` of the loop.                                      *)

tabSeparator == TAB
nulSeparator == NUL

pathSepOf(m) == IF m = "lf" THEN tabSeparator ELSE nulSeparator

Kept(st) == [Branch |-> st.Branch, Stash |-> st.Stash, Entries |-> st.Entries,
             Headers |-> st.Headers, ok |-> TRUE, fault |-> FALSE]

(* variant: a decoder error skips the record instead of returning          *)
Appended_Continue(st, r) ==
    [Branch |-> st.Branch, Stash |-> st.Stash,
     Entries |-> IF r.ok /\ ~r.fault THEN Append(st.Entries, r.entry) ELSE st.Entries,
     Headers |-> st.Headers, ok |-> TRUE, fault |-> r.fault]

Appended(st, r) ==
    [Branch |-> st.Branch, Stash |-> st.Stash,
     Entries |-> IF r.ok /\ ~r.fault THEN Append(st.Entries, r.entry) ELSE st.Entries,
     Headers |-> st.Headers, ok |-> r.ok, fault |-> r.fault]

(* variant: an unknown first byte is an error                              *)
parseV2_Strict(line, pathSep, st) ==
    IF Len(line) = 0 THEN Kept(st)
    ELSE IF At(line, 0) = "#"
    THEN LET Set(h) == [Kept(st) EXCEPT !.Branch = h.Branch, !.Stash = h.Stash]
         IN  Set(parseHeaderEntry(line, st.Branch, st.Stash))
    ELSE IF At(line, 0) = "1" THEN Appended(st, parseChangedEntry(line))
    ELSE IF At(line, 0) = "2" THEN Appended(st, parseRenameOrCopyEntry(line, pathSep))
    ELSE IF At(line, 0) = "u" THEN Appended(st, parseUnmergedEntry(line))
    ELSE IF At(line, 0) = "?" THEN Appended(st, parseUntrackedEntry(line))
    ELSE IF At(line, 0) = "!" THEN Appended(st, parseIgnoredEntry(line))
    ELSE [Kept(st) EXCEPT !.ok = FALSE]

parseV2(line, pathSep, st) ==
    IF Len(line) = 0 THEN Kept(st)
    ELSE IF ~InRange(line, 0) THEN [Kept(st) EXCEPT !.fault = TRUE]
    ELSE IF At(line, 0) = "#"
    THEN LET Set(h) == [Kept(st) EXCEPT !.Branch = h.Branch, !.Stash = h.Stash]
         IN  Set(parseHeaderEntry(line, st.Branch, st.Stash))
    ELSE IF At(line, 0) = "1" THEN Appended(st, parseChangedEntry(line))
    ELSE IF At(line, 0) = "2" THEN Appended(st, parseRenameOrCopyEntry(line, pathSep))
    ELSE IF At(line, 0) = "u" THEN Appended(st, parseUnmergedEntry(line))
    ELSE IF At(line, 0) = "?" THEN Appended(st, parseUntrackedEntry(line))
    ELSE IF At(line, 0) = "!" THEN Appended(st, parseIgnoredEntry(line))
    ELSE Kept(st)

(* variant: ParseZ without the header test of Parse                        *)
parseV1_HeaderLFOnly(line, m, st) ==
    IF Len(line) = 0 THEN Kept(st)
    ELSE IF m = "lf" /\ HasPrefix(line, <<"#", "#">>)
    THEN [Kept(st) EXCEPT !.Headers = Append(st.Headers, line)]
    ELSE IF m = "lf" THEN Appended(st, parseEntry(line))
    ELSE Appended(st, parseEntryZ(line))

parseV1(line, m, st) ==
    IF Len(line) = 0 THEN Kept(st)
    ELSE IF HasPrefix(line, <<"#", "#">>)
    THEN [Kept(st) EXCEPT !.Headers = Append(st.Headers, line)]
    ELSE IF m = "lf" THEN Appended(st, parseEntry(line))
    ELSE Appended(st, parseEntryZ(line))

body(f, m, line, st) ==
    IF f = "v2" THEN parseV2(line, pathSepOf(m), st) ELSE parseV1(line, m, st)

EmptyStatus == [Branch |-> <<>>, Stash |-> <<>>, Entries |-> <<>>, Headers |-> <<>>]

-----------------------------------------------------------------------------
(* Inputs.  A run decodes one byte stream: either any byte sequence of at  *)
(* most MaxRaw bytes over RawAlphabet, or at most MaxRecs records of the   *)
(* pool of its format and mode, each followed by the terminator of the     *)
(* mode (the last one with or without it).  Streams of at most MaxChunked  *)
(* bytes are delivered in every partition into reads.                      *)

MaxRaw     == 4
MaxRecs    == 2
MaxChunked == 6

RawAlphabet(f, m) ==
    IF m = "lf" THEN {LF, CR, SP, "?"}
    ELSE IF f = "v2" THEN {NUL, "2", SP, "?"}
    ELSE {NUL, "R", SP, "?"}

RECURSIVE Join(_, _)
Join(fs, sep) ==
    IF Len(fs) = 0 THEN <<>>
    ELSE IF Len(fs) = 1 THEN fs[1]
    ELSE fs[1] \o <<sep>> \o Join(Tail(fs), sep)

subN == <<"N", ".", ".", ".">>
m644 == <<"6", "4", "4">>
m0   == <<"0">>

recChanged == Join(<< <<"1">>, <<"M", ".">>, subN, m644, m0, m0, <<"h">>, <<"g">>, <<"a">> >>, SP)

recRename(sep) ==
    Join(<< <<"2">>, <<"R", ".">>, subN, m0, m0, m0, <<"h">>, <<"g">>, <<"R", "1">>,
            <<"a", sep, "b">> >>, SP)

recRenameEmptyOrig(sep) ==
    Join(<< <<"2">>, <<"R", ".">>, subN, m0, m0, m0, <<"h">>, <<"g">>, <<"R", "1">>,
            <<"a", sep>> >>, SP)

recRenameNoSep ==
    Join(<< <<"2">>, <<"R", ".">>, subN, m0, m0, m0, <<"h">>, <<"g">>, <<"R", "1">>,
            <<"a">> >>, SP)

recUnmerged ==
    Join(<< <<"u">>, <<"U", "U">>, subN, m0, m0, m0, m0, <<"h">>, <<"h">>, <<"h">>, <<"a">> >>, SP)

recUntracked == <<"?", SP, "a", SP, "b">>
recIgnored   == <<"!", SP, "a">>
recUnknown   == <<"x", SP, "a">>

recChangedBadMode ==
    Join(<< <<"1">>, <<"M", ".">>, subN, <<"8">>, m0, m0, <<"h">>, <<"g">>, <<"a">> >>, SP)

recChangedShort == <<"1", SP, "M", ".">>

hdr(key, value) == <<"#", SP>> \o key \o <<SP>> \o value

hdrOID       == hdr(keyBranchOID, <<"h">>)
hdrAB        == hdr(keyBranchAB, <<"+", "1", SP, "-", "2">>)
hdrStash     == hdr(keyStash, <<"3">>)
hdrUnknown   == hdr(<<"x">>, <<"y">>)
hdrNoPrefix  == <<"#">> \o keyStash \o <<SP, "3">>
hdrNoSpace   == <<"#", SP>> \o keyBranchOID
hdrABBad     == hdr(keyBranchAB, <<"x">>)
hdrABHalf    == hdr(keyBranchAB, <<"+", "6", SP, "x">>)
hdrStashBad  == hdr(keyStash, <<"x">>)

ValidV2(m) ==
    {recChanged, recRename(pathSepOf(m)), recUnmerged, recUntracked, recIgnored,
     hdrOID, hdrAB, hdrStash}

PoolV2(m) ==
    ValidV2(m) \cup
    {recRenameEmptyOrig(pathSepOf(m)), recRenameNoSep, recUnknown, recChangedBadMode,
     recChangedShort, hdrUnknown, hdrNoPrefix, hdrNoSpace, hdrABBad, hdrABHalf,
     hdrStashBad, <<>>}

v1Modified  == <<SP, "M", SP, "a">>
v1Untracked == <<"?", "?", SP, "a", SP, "b">>
v1Header    == <<"#", "#", SP, "m">>
v1Rename(m)  == IF m = "lf" THEN <<"R", SP, SP, "b">> \o arrow \o <<"a">>
                ELSE <<"R", SP, SP, "a", NUL, "b">>
v1CopyY(m)   == IF m = "lf" THEN <<SP, "C", SP, "b">> \o arrow \o <<"a">>
                ELSE <<SP, "C", SP, "a", NUL, "b">>
v1RenameOnePath == <<"R", SP, SP, "a">>
v1Short      == <<"M">>
v1NoSpace    == <<"M", "M", "a">>
v1EmptyOrig  == <<"R", SP, SP>> \o arrow \o <<"a">>

ValidV1(m) == {v1Modified, v1Untracked, v1Header, v1Rename(m), v1CopyY(m)}

PoolV1(m) == ValidV1(m) \cup {v1RenameOnePath, v1Short, v1NoSpace, v1EmptyOrig, <<>>}

Pool(f, m)  == IF f = "v2" THEN PoolV2(m) ELSE PoolV1(m)
Valid(f, m) == IF f = "v2" THEN ValidV2(m) ELSE ValidV1(m)

terminator(m) == IF m = "lf" THEN LF ELSE NUL

RECURSIVE Concat(_, _, _)
Concat(rs, term, lastTerm) ==
    IF Len(rs) = 0 THEN <<>>
    ELSE IF Len(rs) = 1 THEN (IF lastTerm THEN rs[1] \o <<term>> ELSE rs[1])
    ELSE rs[1] \o <<term>> \o Concat(Tail(rs), term, lastTerm)

RawInputs(f, m) == UNION {[1..n -> RawAlphabet(f, m)] : n \in 0..MaxRaw}

RecLists(f, m) == UNION {[1..n -> Pool(f, m)] : n \in 0..MaxRecs}

-----------------------------------------------------------------------------
(* One decode call: Parse or ParseZ of statusv1 or statusv2 on a reader.   *)
(* bufio.Scanner keeps the bytes read and not yet consumed, here           *)
(* input[consumed+1 .. rd]; it calls the split function on them, reads     *)
(* more when the function asks for more, and at the end of the stream      *)
(* calls it with atEOF.  How many bytes a Read returns is the reader's     *)
(* choice.                                                                 *)

VARIABLES
    format,     \* "v1" or "v2"
    mode,       \* "lf" (Parse) or "z" (ParseZ)
    input,      \* the bytes of the stream
    recs,       \* the records the stream was assembled from (<<>> for a raw stream)
    family,     \* "raw", "terminated" or "unterminated" (last record without terminator)
    rd,         \* number of bytes the reader has returned so far
    consumed,   \* number of bytes the scanner has advanced over
    eof,        \* the reader has returned io.EOF
    pc,         \* "scan" inside the loop, "done" after the return, "panic"
    Branch,     \* Status.Branch
    Stash,      \* Status.Stash
    Entries,    \* Status.Entries
    Headers,    \* statusv1 Status.Headers
    err,        \* the returned error: "nil", "decode" or "scan"
    ret,        \* the returned *Status: "pending", "status" or "nil"
    tokens,     \* every token the scanner has returned, in order
    spans,      \* for each token, <<offset in input, advance>>
    refills,    \* what a Read has interrupted: "record", "internalNUL"
    call        \* a direct call of one function: its name, argument and result

vars == <<format, mode, input, recs, family, rd, consumed, eof, pc, Branch, Stash,
          Entries, Headers, err, ret, tokens, spans, refills, call>>

(* no function has been called directly                                    *)
NoCall == [fn |-> "none", arg |-> <<>>, opt |-> "", done |-> FALSE, out |-> <<>>]

Buf == SubSeq(input, consumed + 1, rd)

Status == [Branch |-> Branch, Stash |-> Stash, Entries |-> Entries, Headers |-> Headers]

(* the scanner calls split only on a non-empty buffer or at the end        *)
Split == IF rd > consumed \/ eof THEN split(format, mode, Buf, eof) ELSE NeedMore

Init ==
    /\ format \in {"v1", "v2"}
    /\ mode \in {"lf", "z"}
    /\ \/ /\ family = "raw"
          /\ recs = <<>>
          /\ input \in RawInputs(format, mode)
       \/ /\ family \in {"terminated", "unterminated"}
          /\ recs \in RecLists(format, mode)
          /\ input = Concat(recs, terminator(mode), family = "terminated")
    /\ rd = 0
    /\ consumed = 0
    /\ eof = FALSE
    /\ pc = "scan"
    /\ Branch = <<>>
    /\ Stash = <<>>
    /\ Entries = <<>>
    /\ Headers = <<>>
    /\ err = "nil"
    /\ ret = "pending"
    /\ tokens = <<>>
    /\ spans = <<>>
    /\ refills = {}
    /\ call = NoCall

(* the sizes a Read may return when n bytes of the stream are left: any    *)
(* size for a stream of at most MaxChunked bytes, all of them for a        *)
(* longer one (a strings.Reader or bytes.Reader, as in the tests)          *)
ReadSizes(n) == IF Len(input) <= MaxChunked THEN 1..n ELSE {n}

(* s.r.Read: the split function asked for more and the stream is not at    *)
(* its end; the reader returns k >= 1 bytes, or io.EOF, or both            *)
Read ==
    LET NeedsMore(sp) == ~sp.has /\ ~sp.err /\ ~sp.fault
    IN  /\ pc = "scan"
        /\ ~eof
        /\ NeedsMore(Split)
        /\ \/ /\ rd = Len(input)
              /\ eof' = TRUE
              /\ UNCHANGED <<rd, refills>>
           \/ \E k \in ReadSizes(Len(input) - rd) :
                 /\ k >= 1
                 /\ rd' = rd + k
                 /\ eof' \in (IF rd + k = Len(input) THEN BOOLEAN ELSE {FALSE})
                 /\ refills' = refills \cup (IF rd > consumed THEN {"record"} ELSE {})
                                       \cup (IF IndexByte(Buf, NUL) >= 0 THEN {"internalNUL"} ELSE {})
        /\ UNCHANGED <<format, mode, input, recs, family, consumed, pc, Branch, Stash,
                       Entries, Headers, err, ret, tokens, spans, call>>

(* scanner.Scan() returns true and the loop body decodes scanner.Bytes()   *)
ScanToken ==
    LET Decoded(sp, r, panics) ==
            /\ consumed' = consumed + sp.advance
            /\ tokens' = Append(tokens, sp.token)
            /\ spans' = Append(spans, <<consumed, sp.advance>>)
            /\ Branch' = r.Branch
            /\ Stash' = r.Stash
            /\ Entries' = r.Entries
            /\ Headers' = r.Headers
            /\ pc' = IF panics THEN "panic" ELSE IF r.ok THEN "scan" ELSE "done"
            /\ err' = IF panics \/ r.ok THEN "nil" ELSE "decode"
            /\ ret' = IF panics \/ r.ok THEN "pending" ELSE "nil"
        Body(sp, r) == Decoded(sp, r, sp.fault \/ r.fault)
        Scanned(sp) ==
            /\ sp.has
            /\ 0 <= sp.advance /\ sp.advance <= rd - consumed
            /\ Body(sp, body(format, mode, sp.token, Status))
    IN  /\ pc = "scan"
        /\ Scanned(Split)
        /\ UNCHANGED <<format, mode, input, recs, family, rd, eof, refills, call>>

(* the split function fails (or panics, or advances out of the buffer):    *)
(* Scan returns false with scanner.Err() set; statusv2 returns &s with     *)
(* the error, statusv1 returns nil with it                                 *)
ScanError ==
    LET Failed(sp) ==
            /\ \/ sp.err
               \/ sp.fault
               \/ sp.has /\ ~(0 <= sp.advance /\ sp.advance <= rd - consumed)
            /\ pc' = IF sp.fault THEN "panic" ELSE "done"
            /\ err' = IF sp.fault THEN "nil" ELSE "scan"
            /\ ret' = IF sp.fault THEN "pending" ELSE IF format = "v2" THEN "status" ELSE "nil"
    IN  /\ pc = "scan"
        /\ Failed(Split)
        /\ UNCHANGED <<format, mode, input, recs, family, rd, consumed, eof, Branch, Stash,
                       Entries, Headers, tokens, spans, refills, call>>

(* the stream is at its end and no token is left: Scan returns false,      *)
(* scanner.Err() is nil and the Status is returned                         *)
ScanEnd ==
    LET NoToken(sp) == ~sp.has /\ ~sp.err /\ ~sp.fault
    IN  /\ pc = "scan"
        /\ eof
        /\ NoToken(Split)
        /\ pc' = "done"
        /\ err' = "nil"
        /\ ret' = "status"
        /\ UNCHANGED <<format, mode, input, recs, family, rd, consumed, eof, Branch, Stash,
                       Entries, Headers, tokens, spans, refills, call>>

Next == Read \/ ScanToken \/ ScanError \/ ScanEnd

Spec == Init /\ [][Next]_vars

-----------------------------------------------------------------------------
(* Direct calls.  The field decoders are functions of their argument       *)
(* alone: a run of SpecFn picks one function and one argument (arg, with   *)
(* opt for a second argument) and calls it once; out is what it returns.   *)

MaxField == 7
MaxSub   == 5
MaxPath  == 3
MaxBuf   == 5
MaxLines == 3
MaxPieces == 3

RECURSIVE SeqsUpTo(_, _)
SeqsUpTo(S, n) ==
    IF n = 0 THEN {<<>>}
    ELSE SeqsUpTo(S, n - 1) \cup {Append(q, c) : q \in SeqsUpTo(S, n - 1), c \in S}

FileModeFields == SeqsUpTo({"0", "7", "8"}, MaxField)

SubmoduleFields == SeqsUpTo({"S", "C", "M", "U", "."}, MaxSub)

(* the first nine fields of a rename/copy record and the space after them  *)
renameHead ==
    Join(<< <<"2">>, <<"R", ".">>, subN, m0, m0, m0, <<"h">>, <<"g">>, <<"R", "1">> >>, SP)
        \o <<SP>>

(* the fields before the path of a changed and of an unmerged record      *)
changedHead ==
    Join(<< <<"1">>, <<"M", ".">>, subN, m644, m0, m0, <<"h">>, <<"g">> >>, SP) \o <<SP>>

unmergedHead ==
    Join(<< <<"u">>, <<"U", "U">>, subN, m0, m0, m0, m0, <<"h">>, <<"h">>, <<"h">> >>, SP)
        \o <<SP>>

(* first fields in place of the one-byte discriminant d                    *)
FirstFields(d) == {<<d>>, <<d, "x">>, <<d, d>>, <<"x">>, <<"x", d>>, <<>>}

(* records made of a head: the head cut short at every length, the head   *)
(* with a path, and the same with another first field                      *)
EntryLines(head) ==
    {SubSeq(head, 1, n) : n \in 0..Len(head)}
    \cup {f \o Tail(head) \o p : f \in FirstFields(head[1]),
                                 p \in SeqsUpTo({TAB, NUL, SP, "a"}, MaxPath)}

(* records of an untracked (d = '?') or ignored (d = '!') item             *)
ItemLines(d) == SeqsUpTo({d, SP, "a"}, MaxPath + 2)

RenameLines ==
    {renameHead \o p : p \in SeqsUpTo({TAB, NUL, SP, "a"}, MaxPath)}
    \cup EntryLines(renameHead)

(* the buffers handed to the NUL split function of format f                *)
SplitBuffers(f) == SeqsUpTo(RawAlphabet(f, "z"), MaxBuf)

(* the headers of samplePorcelainV2Output, each key with a second value,  *)
(* headers with a malformed or signed value, and an untracked entry        *)
hdrAB63 == hdr(keyBranchAB, <<"+", "6", SP, "-", "3">>)

HeaderLines ==
    {hdrOID, hdr(keyBranchOID, <<"g">>),
     hdr(keyBranchHead, <<"m">>), hdr(keyBranchHead, <<"n">>),
     hdr(keyBranchUpstream, <<"u">>), hdr(keyBranchUpstream, <<"v">>),
     hdrAB63, hdrAB, hdrABHalf, hdrABBad, hdrStash, hdr(keyStash, <<"4">>), hdrStashBad,
     hdr(keyBranchAB, <<"+", "-", "6", SP, "-", "-", "3">>), hdr(keyStash, <<"-", "1">>),
     recUntracked}

LineLists == SeqsUpTo(HeaderLines, MaxLines)

RECURSIVE Flatten(_)
Flatten(ps) == IF Len(ps) = 0 THEN <<>> ELSE ps[1] \o Flatten(Tail(ps))

(* statusv1 records: the short ones, and an XY field, a third byte and a   *)
(* path part made of up to MaxPieces pieces                                *)
V1Lines ==
    SeqsUpTo({"R", SP}, 2)
    \cup {xy \o <<t>> \o Flatten(ps) :
             xy \in {<<"R", "M">>, <<SP, "C">>, <<"M", SP>>, <<"x", "y">>},
             t \in {SP, "a"},
             ps \in SeqsUpTo({arrow, <<NUL>>, <<"a">>, <<SP>>, <<"-">>}, MaxPieces)}

Calls ==
    [fn : {"parseEntry", "parseEntryZ"}, arg : V1Lines, opt : {""}, done : {FALSE}, out : {<<>>}]
    \cup
    [fn : {"parse"}, arg : LineLists, opt : {"lf"}, done : {FALSE}, out : {<<>>}]
    \cup
    [fn : {"porcelainv1ZSplitFunc"}, arg : SplitBuffers("v1"), opt : {"more", "atEOF"},
     done : {FALSE}, out : {<<>>}]
    \cup
    [fn : {"porcelainv2ZSplitFunc"}, arg : SplitBuffers("v2"), opt : {"more", "atEOF"},
     done : {FALSE}, out : {<<>>}]
    \cup
    [fn : {"parseRenameOrCopyEntry"}, arg : RenameLines, opt : {tabSeparator, nulSeparator},
     done : {FALSE}, out : {<<>>}]
    \cup
    [fn : {"parseChangedEntry"}, arg : EntryLines(changedHead), opt : {""},
     done : {FALSE}, out : {<<>>}]
    \cup
    [fn : {"parseUnmergedEntry"}, arg : EntryLines(unmergedHead), opt : {""},
     done : {FALSE}, out : {<<>>}]
    \cup
    [fn : {"parseUntrackedEntry"}, arg : ItemLines("?"), opt : {""}, done : {FALSE}, out : {<<>>}]
    \cup
    [fn : {"parseIgnoredEntry"}, arg : ItemLines("!"), opt : {""}, done : {FALSE}, out : {<<>>}]
    \cup
    [fn : {"parseFileMode"}, arg : FileModeFields, opt : {""}, done : {FALSE}, out : {<<>>}]
    \cup
    [fn : {"parseSubmoduleStatus"}, arg : SubmoduleFields, opt : {""}, done : {FALSE}, out : {<<>>}]

machineVars == <<format, mode, input, recs, family, rd, consumed, eof, pc, Branch, Stash,
                 Entries, Headers, err, ret, tokens, spans, refills>>

InitFn ==
    /\ format = "v2"
    /\ mode = "lf"
    /\ family = "raw"
    /\ input = <<>>
    /\ recs = <<>>
    /\ rd = 0
    /\ consumed = 0
    /\ eof = FALSE
    /\ pc = "done"
    /\ Branch = <<>>
    /\ Stash = <<>>
    /\ Entries = <<>>
    /\ Headers = <<>>
    /\ err = "nil"
    /\ ret = "pending"
    /\ tokens = <<>>
    /\ spans = <<>>
    /\ refills = {}
    /\ call \in Calls

Returns(fn, out) ==
    /\ call.fn = fn
    /\ ~call.done
    /\ call' = [call EXCEPT !.done = TRUE, !.out = out]
    /\ UNCHANGED machineVars

CallParseFileMode == Returns("parseFileMode", parseFileMode(call.arg))

CallParseSubmoduleStatus == Returns("parseSubmoduleStatus", parseSubmoduleStatus(call.arg))

CallParseRenameOrCopyEntry ==
    Returns("parseRenameOrCopyEntry", parseRenameOrCopyEntry(call.arg, call.opt))

CallParseChangedEntry == Returns("parseChangedEntry", parseChangedEntry(call.arg))

CallParseUnmergedEntry == Returns("parseUnmergedEntry", parseUnmergedEntry(call.arg))

CallParseUntrackedEntry == Returns("parseUntrackedEntry", parseUntrackedEntry(call.arg))

CallParseIgnoredEntry == Returns("parseIgnoredEntry", parseIgnoredEntry(call.arg))

CallParseEntry == Returns("parseEntry", parseEntry(call.arg))

CallParseEntryZ == Returns("parseEntryZ", parseEntryZ(call.arg))

CallSplitV1 ==
    Returns("porcelainv1ZSplitFunc", porcelainv1ZSplitFunc(call.arg, call.opt = "atEOF"))

CallSplitV2 ==
    Returns("porcelainv2ZSplitFunc", porcelainv2ZSplitFunc(call.arg, call.opt = "atEOF"))

(* the loop of parse over the records of a stream: the results of the     *)
(* loop body, record after record, up to the first error                   *)
RECURSIVE parseLines(_, _, _)
parseLines(lines, pathSep, st) ==
    LET Step(r) ==
            IF ~r.ok \/ r.fault \/ Len(lines) = 1 THEN <<r>>
            ELSE <<r>> \o parseLines(Tail(lines), pathSep,
                                     [Branch |-> r.Branch, Stash |-> r.Stash,
                                      Entries |-> r.Entries, Headers |-> r.Headers])
    IN  IF Len(lines) = 0 THEN <<>> ELSE Step(parseV2(lines[1], pathSep, st))

CallParse == Returns("parse", parseLines(call.arg, pathSepOf(call.opt), EmptyStatus))

NextFn ==
    \/ CallParse
    \/ CallParseFileMode
    \/ CallParseSubmoduleStatus
    \/ CallParseRenameOrCopyEntry
    \/ CallParseChangedEntry
    \/ CallParseUnmergedEntry
    \/ CallParseUntrackedEntry
    \/ CallParseIgnoredEntry
    \/ CallParseEntry
    \/ CallParseEntryZ
    \/ CallSplitV1
    \/ CallSplitV2

SpecFn == InitFn /\ [][NextFn]_vars

Called(fn) == call.done /\ call.fn = fn

-----------------------------------------------------------------------------
(* The same decode with the whole stream in the scanner's buffer: split    *)
(* is called on all remaining bytes, first before and then at the end of   *)
(* the stream.                                                             *)

RECURSIVE WholeScanFrom(_, _, _, _)
WholeScanFrom(f, m, data, atEOF) ==
    LET r == IF Len(data) > 0 \/ atEOF THEN split(f, m, data, atEOF) ELSE NeedMore
    IN  IF r.err \/ r.fault \/ (r.has /\ (r.advance < 1 \/ r.advance > Len(data)))
        THEN [tokens |-> <<>>, err |-> TRUE]
        ELSE IF r.has
        THEN LET rest == WholeScanFrom(f, m, SubSeq(data, r.advance + 1, Len(data)), atEOF)
             IN  [tokens |-> <<r.token>> \o rest.tokens, err |-> rest.err]
        ELSE IF atEOF THEN [tokens |-> <<>>, err |-> FALSE]
        ELSE WholeScanFrom(f, m, data, TRUE)

WholeScan(f, m, data) == WholeScanFrom(f, m, data, FALSE)

RECURSIVE FoldBody(_, _, _, _)
FoldBody(f, m, lines, st) ==
    IF Len(lines) = 0 THEN [status |-> st, ok |-> TRUE]
    ELSE LET r == body(f, m, lines[1], st)
         IN  IF ~r.ok \/ r.fault THEN [status |-> st, ok |-> FALSE]
             ELSE FoldBody(f, m, Tail(lines),
                           [Branch |-> r.Branch, Stash |-> r.Stash,
                            Entries |-> r.Entries, Headers |-> r.Headers])

(* what the caller gets: the error, and the Status unless it is nil        *)
Outcome(r, e, st) == [ret |-> r, err |-> e, status |-> IF r = "status" THEN st ELSE EmptyStatus]

WholeParse(f, m, data) ==
    LET sc == WholeScan(f, m, data)
        fd == FoldBody(f, m, sc.tokens, EmptyStatus)
    IN  IF ~fd.ok THEN Outcome("nil", "decode", EmptyStatus)
        ELSE IF sc.err THEN Outcome(IF f = "v2" THEN "status" ELSE "nil", "scan", fd.status)
        ELSE Outcome("status", "nil", fd.status)

Returned == Outcome(ret, err, Status)

IsPrefixOf(s, t) == Len(s) <= Len(t) /\ SubSeq(t, 1, Len(s)) = s

-----------------------------------------------------------------------------
(* C2: statusv2 ParseZ: the tokens and the final error of the scanner are  *)
(* those of the whole stream in one buffer, however the reads cut it.      *)
C2_ChunkingV2 ==
    (format = "v2" /\ mode = "z") =>
        LET w == WholeScan(format, mode, input)
        IN  /\ IsPrefixOf(tokens, w.tokens)
            /\ (pc = "done" /\ err # "decode") => (tokens = w.tokens /\ (err = "scan") = w.err)

(* a read interrupted a rename/copy record after its internal NUL, and the *)
(* token with that NUL inside was returned                                 *)
C2_Witness ==
    /\ pc = "done" /\ format = "v2" /\ mode = "z"
    /\ "internalNUL" \in refills
    /\ \E i \in 1..Len(tokens) : IndexByte(tokens[i], NUL) >= 0

(* C3: statusv1 ParseZ: the tokens and the final error of the scanner are  *)
(* those of the whole stream in one buffer, however the reads cut it.      *)
C3_ChunkingV1 ==
    (format = "v1" /\ mode = "z") =>
        LET w == WholeScan(format, mode, input)
        IN  /\ IsPrefixOf(tokens, w.tokens)
            /\ (pc = "done" /\ err # "decode") => (tokens = w.tokens /\ (err = "scan") = w.err)


(* C1: a stream of N valid records, each followed by the terminator of     *)
(* the mode, decodes without error; the scanner returns exactly those N    *)
(* records in order, and the Status is the one obtained by applying the    *)
(* records one after the other, each entry being the entry of its record   *)
(* decoded alone.                                                          *)
Alone(rec) == WholeParse(format, mode, rec \o <<terminator(mode)>>)

RECURSIVE EntriesAlone(_)
EntriesAlone(rs) ==
    IF Len(rs) = 0 THEN <<>> ELSE Alone(rs[1]).status.Entries \o EntriesAlone(Tail(rs))

RECURSIVE HeadersAlone(_)
HeadersAlone(rs) ==
    IF Len(rs) = 0 THEN <<>> ELSE Alone(rs[1]).status.Headers \o HeadersAlone(Tail(rs))

WellFormed == family = "terminated" /\ \A i \in 1..Len(recs) : recs[i] \in Valid(format, mode)

C1_RecordsInOrder ==
    (pc = "done" /\ WellFormed) =>
        /\ err = "nil" /\ ret = "status"
        /\ tokens = recs
        /\ \A i \in 1..Len(recs) : Alone(recs[i]).err = "nil"
        /\ Entries = EntriesAlone(recs)
        /\ Headers = HeadersAlone(recs)
        /\ Status = FoldBody(format, mode, recs, EmptyStatus).status

(* two valid records, the first a rename/copy record in NUL mode           *)
C1_Witness ==
    /\ pc = "done" /\ WellFormed /\ mode = "z"
    /\ Len(recs) = 2 /\ IndexByte(recs[1], NUL) >= 0
    /\ Len(Entries) = 2

(* C4: in NUL mode, at the end of the stream, a pending rename/copy record *)
(* whose first NUL is its last byte makes the scanner fail: no token is    *)
(* returned for it, no entry is made of it, and ParseZ returns an error.   *)
ClassifiedRenameOrCopy(f, data) ==
    IF f = "v2" THEN Len(data) >= 2 /\ data[1] = "2" /\ data[2] = SP
    ELSE \E i \in 1..2 : i <= Len(data) /\ data[i] \in {"R", "C"}

TruncatedRenamePending ==
    /\ pc = "scan" /\ mode = "z" /\ eof
    /\ ClassifiedRenameOrCopy(format, Buf)
    /\ IndexByte(Buf, NUL) = Len(Buf) - 1

C4_TruncatedRename ==
    [][TruncatedRenamePending =>
          (pc' = "done" /\ err' = "scan" /\ tokens' = tokens /\ Entries' = Entries)]_vars

(* the decode stopped on such a record, after an earlier entry             *)
C4_Witness ==
    /\ pc = "done" /\ err = "scan" /\ mode = "z"
    /\ ClassifiedRenameOrCopy(format, Buf) /\ IndexByte(Buf, NUL) = Len(Buf) - 1
    /\ Len(Entries) >= 1

(* C5: no input makes the code panic: the decode never panics, and every   *)
(* split function (with either value of atEOF) and every record decoder    *)
(* applied to the bytes at hand indexes and slices within bounds.          *)
DecoderFaults(line) ==
    \/ parseChangedEntry(line).fault
    \/ parseRenameOrCopyEntry(line, tabSeparator).fault
    \/ parseRenameOrCopyEntry(line, nulSeparator).fault
    \/ parseUnmergedEntry(line).fault
    \/ parseUntrackedEntry(line).fault
    \/ parseIgnoredEntry(line).fault
    \/ parseEntry(line).fault
    \/ parseEntryZ(line).fault

C5_NoPanic ==
    /\ pc # "panic"
    /\ \A atEOF \in BOOLEAN :
          /\ ~porcelainv1ZSplitFunc(Buf, atEOF).fault
          /\ ~porcelainv2ZSplitFunc(Buf, atEOF).fault
          /\ ~ScanLines(Buf, atEOF).fault
    /\ ~DecoderFaults(Buf)
    /\ \A i \in 1..Len(tokens) : ~DecoderFaults(tokens[i])

(* the statusv1 NUL scanner was handed the one-byte buffer <<NUL>> and     *)
(* returned the empty token                                                *)
C5_Witness ==
    /\ format = "v1" /\ mode = "z"
    /\ rd = 1 /\ consumed = 1 /\ tokens = << <<>> >>
    /\ input[1] = NUL


-----------------------------------------------------------------------------
(* Header records of statusv2, read off the bytes of a token.              *)

LastToken == tokens'[Len(tokens')]

TokenScanned == Len(tokens') = Len(tokens) + 1

HeaderKey(line) == Cut(SubSeq(line, 3, Len(line)), <<SP>>).before

HeaderValue(line) == Cut(SubSeq(line, 3, Len(line)), <<SP>>).after

(* "# <key> <value>": the prefix, a key and the space after it             *)
HasKeyAndValue(line) ==
    HasPrefix(line, <<"#", SP>>) /\ Cut(SubSeq(line, 3, Len(line)), <<SP>>).found

BranchKeys == {keyBranchOID, keyBranchHead, keyBranchUpstream, keyBranchAB}

IsBranchHeader(line) == HasKeyAndValue(line) /\ HeaderKey(line) \in BranchKeys

IsStashHeader(line) == HasKeyAndValue(line) /\ HeaderKey(line) = keyStash

AllDigits(ds) == Len(ds) > 0 /\ \A i \in 1..Len(ds) : ds[i] \in DOMAIN DigitOf

(* '+<int> -<int>'                                                         *)
ShapeAB(value) ==
    \E i \in 1..Len(value) :
        /\ value[i] = SP
        /\ i >= 3 /\ value[1] = "+" /\ AllDigits(SubSeq(value, 2, i - 1))
        /\ Len(value) >= i + 2 /\ value[i + 1] = "-" /\ AllDigits(SubSeq(value, i + 2, Len(value)))

(* a base-10 integer                                                       *)
ShapeInt(value) ==
    \/ AllDigits(value)
    \/ Len(value) > 1 /\ value[1] \in {"+", "-"} /\ AllDigits(SubSeq(value, 2, Len(value)))

MalformedValueHeader(line) ==
    /\ HasKeyAndValue(line)
    /\ \/ HeaderKey(line) = keyBranchAB /\ ~ShapeAB(HeaderValue(line))
       \/ HeaderKey(line) = keyStash /\ ~ShapeInt(HeaderValue(line))

(* C6: a branch.ab or stash header whose value does not have its shape     *)
(* leaves Branch, Stash and Entries as they were, and decoding goes on.    *)
C6_MalformedValueDropped ==
    [][(format = "v2" /\ TokenScanned /\ MalformedValueHeader(LastToken)) =>
          (Branch' = Branch /\ Stash' = Stash /\ Entries' = Entries
           /\ pc' = "scan" /\ err' = "nil")]_vars

IgnoredHeader(line) ==
    /\ Len(line) > 0 /\ line[1] = "#"
    /\ \/ ~HasPrefix(line, <<"#", SP>>)
       \/ ~HasKeyAndValue(line)
       \/ HeaderKey(line) \notin (BranchKeys \cup {keyStash})

(* C7: a header with an unrecognized key, without the "# " prefix or       *)
(* without a space after its key leaves Branch, Stash and Entries as they  *)
(* were and is no error.                                                   *)
C7_IgnoredHeaderFrame ==
    [][(format = "v2" /\ TokenScanned /\ IgnoredHeader(LastToken)) =>
          (Branch' = Branch /\ Stash' = Stash /\ Entries' = Entries
           /\ pc' = "scan" /\ err' = "nil" /\ ret' = "pending")]_vars

(* the three kinds of ignored header have been scanned in decodes that     *)
(* ended with a Status: here a recognized key without the space after it   *)
C7_Witness ==
    /\ pc = "done" /\ format = "v2" /\ ret = "status"
    /\ \E i \in 1..Len(tokens) : tokens[i] = hdrNoSpace
    /\ \E i \in 1..Len(tokens) : IgnoredHeader(tokens[i]) /\ tokens[i] # hdrNoSpace
    /\ Branch = <<>> /\ Stash = <<>>

(* C8: statusv2 skips a record whose first byte is no known discriminant:  *)
(* the outcome is that of the stream without the record and its            *)
(* terminator.                                                             *)
KnownDiscriminants == {"#", "1", "2", "u", "?", "!"}

UnknownRecord(line) == Len(line) > 0 /\ line[1] \notin KnownDiscriminants

Without(data, span) ==
    SubSeq(data, 1, span[1]) \o SubSeq(data, span[1] + span[2] + 1, Len(data))

C8_UnknownSkipped ==
    (pc = "done" /\ format = "v2") =>
        \A i \in 1..Len(tokens) :
            UnknownRecord(tokens[i]) =>
                Returned = WholeParse(format, mode, Without(input, spans[i]))

(* an unknown record followed by a record that became an entry             *)
C8_Witness ==
    /\ pc = "done" /\ format = "v2" /\ ret = "status"
    /\ Len(tokens) = 2 /\ UnknownRecord(tokens[1])
    /\ Len(Entries) = 1

(* C9: the first entry record that fails its decoder ends the decode: it   *)
(* is the last token scanned, the error is returned and the Status is nil. *)
FailsDecoder(f, m, line) ==
    IF f = "v2"
    THEN /\ Len(line) > 0
         /\ \/ line[1] = "1" /\ ~parseChangedEntry(line).ok
            \/ line[1] = "2" /\ ~parseRenameOrCopyEntry(line, pathSepOf(m)).ok
            \/ line[1] = "u" /\ ~parseUnmergedEntry(line).ok
            \/ line[1] = "?" /\ ~parseUntrackedEntry(line).ok
            \/ line[1] = "!" /\ ~parseIgnoredEntry(line).ok
    ELSE /\ Len(line) > 0 /\ ~HasPrefix(line, <<"#", "#">>)
         /\ IF m = "lf" THEN ~parseEntry(line).ok ELSE ~parseEntryZ(line).ok

C9_DecodeErrorStops ==
    \A i \in 1..Len(tokens) :
        FailsDecoder(format, mode, tokens[i]) =>
            (i = Len(tokens) /\ pc = "done" /\ err = "decode" /\ ret = "nil")

(* a record failed after an earlier record had become an entry             *)
C9_Witness ==
    /\ pc = "done" /\ err = "decode" /\ ret = "nil"
    /\ Len(tokens) = 2 /\ Len(Entries) = 1
    /\ FailsDecoder(format, mode, tokens[2])

(* C10: statusv2: Branch is nil unless a branch.oid, branch.head,          *)
(* branch.upstream or branch.ab header was scanned, Stash is nil unless a  *)
(* stash header was.                                                       *)
C10_NilWithoutHeader ==
    format = "v2" =>
        /\ Branch # <<>> => \E i \in 1..Len(tokens) : IsBranchHeader(tokens[i])
        /\ Stash # <<>> => \E i \in 1..Len(tokens) : IsStashHeader(tokens[i])

(* a Status returned with an entry and an unrecognized header, both nil    *)
C10_Witness ==
    /\ pc = "done" /\ format = "v2" /\ ret = "status"
    /\ Branch = <<>> /\ Stash = <<>>
    /\ Len(Entries) = 1
    /\ \E i \in 1..Len(tokens) : tokens[i] = hdrUnknown

(* C11: in one decode call a StashInfo is created at most once: at most    *)
(* one scanned record makes parseHeaderEntry execute                       *)
(* s.Stash = &StashInfo{...}.                                              *)
CreatesStash(line) ==
    /\ Len(line) > 0 /\ line[1] = "#"
    /\ parseHeaderEntry(line, <<>>, <<>>).Stash # <<>>

C11_StashCreatedOnce ==
    format = "v2" => Cardinality({i \in 1..Len(tokens) : CreatesStash(tokens[i])}) <= 1

(* C12: parseFileMode accepts a field exactly when it is 1 to 6 octal      *)
(* digits and then returns its base-8 value; every other field is an       *)
(* error.                                                                  *)
OctalDigits == {"0", "1", "2", "3", "4", "5", "6", "7"}

IsOctalText(field) == \A i \in 1..Len(field) : field[i] \in OctalDigits

C12_FileModeOneToSix ==
    Called("parseFileMode") =>
        /\ call.out.ok <=> (Len(call.arg) \in 1..6 /\ IsOctalText(call.arg))
        /\ call.out.ok => call.out.mode = NumVal(call.arg, 8)

(* C13: parseSubmoduleStatus fails exactly when the field is not 4 bytes   *)
(* long; for 4 bytes each flag is set iff the byte at its position is its  *)
(* letter (S, C, M, U), whatever the other bytes are, without error.       *)
C13_SubmoduleByPosition ==
    Called("parseSubmoduleStatus") =>
        /\ ~call.out.ok <=> Len(call.arg) # 4
        /\ ~call.out.fault
        /\ Len(call.arg) = 4 =>
              /\ call.out.sub.IsSubmodule      <=> call.arg[1] = "S"
              /\ call.out.sub.CommitChanged    <=> call.arg[2] = "C"
              /\ call.out.sub.HasModifications <=> call.arg[3] = "M"
              /\ call.out.sub.HasUntracked     <=> call.arg[4] = "U"

(* four flag letters, each at a position that is not its own               *)
C13_Witness ==
    /\ Called("parseSubmoduleStatus")
    /\ call.arg = <<"C", "S", "U", "M">>
    /\ call.out.ok
    /\ call.out.sub = [IsSubmodule |-> FALSE, CommitChanged |-> FALSE,
                       HasModifications |-> FALSE, HasUntracked |-> FALSE]

(* C14: parseRenameOrCopyEntry with the separator of its mode fails unless *)
(* the last field holds that separator exactly once, and then Path is what *)
(* precedes it and Orig what follows; the other separator byte does not    *)
(* count.                                                                  *)
LastField(line) == SubSeq(line, Len(renameHead) + 1, Len(line))

Occurrences(s, c) == Cardinality({i \in 1..Len(s) : s[i] = c})

C14_SeparatorExactlyOnce ==
    Called("parseRenameOrCopyEntry") =>
        /\ call.out.ok <=> Occurrences(LastField(call.arg), call.opt) = 1
        /\ call.out.ok =>
              LastField(call.arg) = call.out.entry.Path \o <<call.opt>> \o call.out.entry.Orig

(* C15: in NUL mode a rename/copy record whose internal NUL is followed at *)
(* once by the terminating NUL is one token ending in the internal NUL and *)
(* becomes an entry with the empty original path; the same record at the   *)
(* end of the stream without the terminating NUL is an error.              *)
(* the original path of an entry, <<OOB>> for an entry that has none       *)
OrigOf(f, e) ==
    IF f = "v1" THEN e.OrigPath
    ELSE IF e.type = "RenameOrCopy" THEN e.Orig
    ELSE <<OOB>>

(* the one entry the record makes on its own, <<>> when it makes none      *)
EntryOf(f, line) ==
    LET Made(r) == IF r.ok /\ ~r.fault /\ Len(r.Entries) = 1 THEN r.Entries ELSE <<>>
    IN  Made(body(f, "z", line, EmptyStatus))

(* a record ending in its only NUL that is a rename/copy record with the   *)
(* original path "b" once the byte b follows the NUL                       *)
EmptyOrigRecord(f, line) ==
    /\ Len(line) > 1
    /\ IndexByte(line, NUL) = Len(line) - 1
    /\ EntryOf(f, line \o <<"b">>) # <<>>
    /\ OrigOf(f, EntryOf(f, line \o <<"b">>)[1]) = <<"b">>

C15_EmptyOrigPath ==
    [][/\ (mode = "z" /\ TokenScanned /\ EmptyOrigRecord(format, LastToken)) =>
             /\ Len(Entries') = Len(Entries) + 1
             /\ OrigOf(format, Entries'[Len(Entries')]) = <<>>
             /\ Entries'[Len(Entries')].Path = EntryOf(format, LastToken \o <<"b">>)[1].Path
             /\ pc' = "scan" /\ err' = "nil"
       /\ (mode = "z" /\ pc = "scan" /\ eof /\ EmptyOrigRecord(format, Buf)) =>
             (pc' = "done" /\ err' = "scan" /\ ret' # "pending" /\ Entries' = Entries)]_vars

(* a Status was returned whose only entry has the empty original path      *)
C15_Witness ==
    /\ pc = "done" /\ mode = "z" /\ ret = "status" /\ err = "nil"
    /\ Len(tokens) >= 1 /\ EmptyOrigRecord(format, tokens[1])
    /\ Len(Entries) = 1 /\ OrigOf(format, Entries[1]) = <<>>

(* C16: when every record is well-formed and the last one, not empty, is   *)
(* not followed by its terminator, the decode succeeds and returns what    *)
(* it returns for the same stream with the terminator appended.            *)
LastUnterminated ==
    /\ family = "unterminated"
    /\ Len(recs) >= 1
    /\ \A i \in 1..Len(recs) : recs[i] \in Valid(format, mode)

C16_MissingLastTerminator ==
    (pc = "done" /\ LastUnterminated) =>
        /\ err = "nil" /\ ret = "status"
        /\ tokens = recs
        /\ Returned = WholeParse(format, mode, input \o <<terminator(mode)>>)

(* two records in NUL mode, the last a rename/copy record that ends with   *)
(* its second path                                                         *)
C16_Witness ==
    /\ pc = "done" /\ LastUnterminated /\ mode = "z"
    /\ Len(recs) = 2 /\ IndexByte(recs[2], NUL) >= 0
    /\ input[Len(input)] # NUL
    /\ Len(Entries) = 2

(* C17: in LF mode every non-empty line reaches the dispatcher as the      *)
(* bytes of the input line with only the terminating LF removed: nothing   *)
(* else, such as a trailing CR, is trimmed.                                *)
InputLine(span) ==
    LET Line(bytes) ==
            IF Len(bytes) > 0 /\ bytes[Len(bytes)] = LF
            THEN SubSeq(bytes, 1, Len(bytes) - 1)
            ELSE bytes
    IN  Line(SubSeq(input, span[1] + 1, span[1] + span[2]))

C17_LineVerbatim ==
    mode = "lf" =>
        \A i \in 1..Len(tokens) :
            InputLine(spans[i]) # <<>> => tokens[i] = InputLine(spans[i])

(* C18: statusv1: Parse of the LF encoding and ParseZ of the NUL encoding  *)
(* of the same list of headers and entries return equal results.           *)
(* An item is a header or an entry; a rename/copy entry (rc) is written    *)
(* 'XY ORIG -> PATH' in LF mode and 'XY PATH<NUL>ORIG' in NUL mode.        *)
V1Items ==
    {[xy |-> <<"#", "#">>, path |-> <<"m">>,           orig |-> <<>>,    rc |-> FALSE],
     [xy |-> <<SP, "M">>,  path |-> <<"a">>,           orig |-> <<>>,    rc |-> FALSE],
     [xy |-> <<"?", "?">>, path |-> <<"a", SP, "b">>,  orig |-> <<>>,    rc |-> FALSE],
     [xy |-> <<"R", SP>>,  path |-> <<"a">>,           orig |-> <<"b">>, rc |-> TRUE],
     [xy |-> <<SP, "C">>,  path |-> <<"a">>,           orig |-> <<"b">>, rc |-> TRUE],
     [xy |-> <<"R", SP>>,  path |-> <<"a">>,           orig |-> <<>>,    rc |-> TRUE]}

EncodeV1(it, m) ==
    IF ~it.rc THEN it.xy \o <<SP>> \o it.path
    ELSE IF m = "lf" THEN it.xy \o <<SP>> \o it.orig \o arrow \o it.path
    ELSE it.xy \o <<SP>> \o it.path \o <<NUL>> \o it.orig

OtherMode(m) == IF m = "lf" THEN "z" ELSE "lf"

(* the record of the other mode that encodes the same item                 *)
Transcode(rec, m) ==
    EncodeV1(CHOOSE it \in V1Items : EncodeV1(it, m) = rec, OtherMode(m))

IsV1Header(line) == Len(line) >= 2 /\ line[1] = "#" /\ line[2] = "#"

IsV1EntryRecord(line) == Len(line) > 0 /\ ~IsV1Header(line)

(* the entries of the records decoded one by one, each on its own          *)
RECURSIVE EntriesOneByOne(_, _)
EntriesOneByOne(m, lines) ==
    IF Len(lines) = 0 THEN <<>>
    ELSE (IF m = "lf" THEN <<parseEntry(lines[1]).entry>> ELSE <<parseEntryZ(lines[1]).entry>>)
         \o EntriesOneByOne(m, Tail(lines))

NULOffsets(data) == {i \in 0..(Len(data) - 1) : data[i + 1] = NUL}

Least(S) == CHOOSE i \in S : \A j \in S : i <= j

RenameOrCopyBuffer(fn, data) ==
    IF fn = "porcelainv2ZSplitFunc"
    THEN Len(data) >= 2 /\ data[1] = "2" /\ data[2] = SP
    ELSE \/ Len(data) >= 1 /\ data[1] \in {"R", "C"}
         \/ Len(data) >= 2 /\ data[2] \in {"R", "C"}

SplitRule(fn, data, out) ==
    LET nuls == NULOffsets(data)
    IN  /\ (nuls # {} /\ ~RenameOrCopyBuffer(fn, data)) =>
              /\ out.has /\ ~out.err /\ ~out.fault
              /\ out.token = SubSeq(data, 1, Least(nuls))
              /\ out.advance = Least(nuls) + 1
        /\ (Cardinality(nuls) >= 2 /\ RenameOrCopyBuffer(fn, data)) =>
              /\ out.has /\ ~out.err /\ ~out.fault
              /\ out.token = SubSeq(data, 1, Least(nuls \ {Least(nuls)}))
              /\ out.token[Least(nuls) + 1] = NUL
              /\ out.advance = Least(nuls \ {Least(nuls)}) + 1

ClassifiedRC(f, tok) ==
    RenameOrCopyBuffer(IF f = "v2" THEN "porcelainv2ZSplitFunc" ELSE "porcelainv1ZSplitFunc", tok)

(* the token is the input at its span, and the byte consumed after it, if  *)
(* there is one, is the terminating NUL                                    *)
ExcludesTerminator(tok, span) ==
    /\ tok = SubSeq(input, span[1] + 1, span[1] + Len(tok))
    /\ \/ span[2] = Len(tok) /\ span[1] + span[2] = Len(input)
       \/ span[2] = Len(tok) + 1 /\ input[span[1] + span[2]] = NUL

C21_TokenNULs ==
    mode = "z" =>
        \A i \in 1..Len(tokens) :
            /\ ExcludesTerminator(tokens[i], spans[i])
            /\ Occurrences(tokens[i], NUL) <= 1
            /\ Occurrences(tokens[i], NUL) = 1 => ClassifiedRC(format, tokens[i])
            /\ ~ClassifiedRC(format, tokens[i]) => Occurrences(tokens[i], NUL) = 0

(* a terminated rename/copy token that holds its separator, after a        *)
(* refill in the middle of the record                                      *)
C21_Witness ==
    /\ mode = "z" /\ pc = "done" /\ "internalNUL" \in refills
    /\ \E i \in 1..Len(tokens) :
          /\ Occurrences(tokens[i], NUL) = 1
          /\ spans[i][2] = Len(tokens[i]) + 1

(* C22: each recognized header sets only its own target: branch.oid,       *)
(* branch.head and branch.upstream set OID, Head and Upstream, branch.ab   *)
(* sets Ahead and Behind, stash sets Stash; every other field of           *)
(* BranchInfo, Stash and Entries stay as they were, also when the header   *)
(* is repeated; a field whose header never appeared has its default.       *)
(* '# branch.ab +6 -3' then '# stash 3' gives Ahead 6, Behind 3, Count 3.  *)
BranchFields == {"OID", "Head", "Upstream", "Ahead", "Behind"}

TargetOf(key) ==
    IF key = keyBranchOID THEN {"OID"}
    ELSE IF key = keyBranchHead THEN {"Head"}
    ELSE IF key = keyBranchUpstream THEN {"Upstream"}
    ELSE IF key = keyBranchAB THEN {"Ahead", "Behind"}
    ELSE {}

(* the fields of a BranchInfo, those of an absent one being the defaults   *)
FieldsOf(branch) == IF branch = <<>> THEN NewBranchInfo ELSE branch[1]

StatusBefore(i) == IF i = 1 THEN Kept(EmptyStatus) ELSE call.out[i - 1]

HeaderFrame(line, b, a) ==
    /\ \A f \in BranchFields \ TargetOf(HeaderKey(line)) :
          FieldsOf(a.Branch)[f] = FieldsOf(b.Branch)[f]
    /\ HeaderKey(line) = keyStash => a.Branch = b.Branch
    /\ HeaderKey(line) # keyStash => a.Stash = b.Stash
    /\ a.Entries = b.Entries
    /\ HeaderKey(line) = keyBranchOID => FieldsOf(a.Branch).OID = HeaderValue(line)
    /\ HeaderKey(line) = keyBranchHead => FieldsOf(a.Branch).Head = HeaderValue(line)
    /\ HeaderKey(line) = keyBranchUpstream => FieldsOf(a.Branch).Upstream = HeaderValue(line)

NeverAppeared(lines, key) == \A i \in 1..Len(lines) : ~(lines[i][1] = "#" /\ HeaderKey(lines[i]) = key)

DefaultsKept(lines, last) ==
    /\ \A key \in BranchKeys : NeverAppeared(lines, key) =>
          \A f \in TargetOf(key) : FieldsOf(last.Branch)[f] = NewBranchInfo[f]
    /\ NeverAppeared(lines, keyStash) => last.Stash = <<>>

C22_HeaderFrame ==
    (Called("parse") /\ Len(call.arg) > 0) =>
        /\ Len(call.out) = Len(call.arg)
        /\ \A i \in 1..Len(call.arg) :
              call.arg[i][1] = "#" => HeaderFrame(call.arg[i], StatusBefore(i), call.out[i])
        /\ DefaultsKept(call.arg, call.out[Len(call.out)])
        /\ call.arg = <<hdrAB63, hdrStash>> =>
              /\ call.out[2].Branch = <<[NewBranchInfo EXCEPT !.Ahead = 6, !.Behind = 3]>>
              /\ call.out[2].Stash = <<[Count |-> 3]>>

(* an entry, then branch.oid twice with two values: the second value       *)
(* stands, the entry is kept                                               *)
C22_Witness ==
    /\ Called("parse")
    /\ call.arg = <<recUntracked, hdrOID, hdr(keyBranchOID, <<"g">>)>>
    /\ Len(call.out[3].Entries) = 1
    /\ call.out[3].Branch = <<[NewBranchInfo EXCEPT !.OID = <<"g">>]>>

(* C23: the field split is capped.  A Changed record needs at least 9      *)
(* fields separated by single spaces, a RenameOrCopy record 10, an         *)
(* Unmerged record 11, and fewer is an error; the path is all of the       *)
(* record after its 8th, 9th or 10th space (for RenameOrCopy: the path,    *)
(* the separator and the original path), and for Untracked and Ignored     *)
(* all of the record after its 2-byte prefix, further spaces included.     *)
MinFields(fn) ==
    IF fn = "parseChangedEntry" THEN 9
    ELSE IF fn = "parseRenameOrCopyEntry" THEN 10
    ELSE 11

(* the bytes after the k-th space of the line                              *)
AfterSpace(line, k) ==
    LET at == CHOOSE i \in 1..Len(line) :
                  line[i] = SP /\ Occurrences(SubSeq(line, 1, i), SP) = k
    IN  SubSeq(line, at + 1, Len(line))

PathPart(fn, opt, entry) ==
    IF fn = "parseRenameOrCopyEntry" THEN entry.Path \o <<opt>> \o entry.Orig ELSE entry.Path

C23_FieldSplitCap ==
    /\ (Called("parseChangedEntry") \/ Called("parseRenameOrCopyEntry")
        \/ Called("parseUnmergedEntry")) =>
          /\ Occurrences(call.arg, SP) < MinFields(call.fn) - 1 => ~call.out.ok
          /\ call.out.ok =>
                PathPart(call.fn, call.opt, call.out.entry)
                    = AfterSpace(call.arg, MinFields(call.fn) - 1)
    /\ (Called("parseUntrackedEntry") \/ Called("parseIgnoredEntry")) =>
          (call.out.ok => call.out.entry.Path = SubSeq(call.arg, 3, Len(call.arg)))

(* a changed record whose path holds two more spaces                       *)
C23_Witness ==
    /\ Called("parseChangedEntry")
    /\ call.arg = changedHead \o <<"a", SP, SP>>
    /\ call.out.ok
    /\ call.out.entry.Path = <<"a", SP, SP>>

(* C24: a statusv2 entry decoder returns an error unless the first field   *)
(* of the record, the bytes before its first space, is exactly the one     *)
(* byte of its kind: '1' for Changed, '2' for RenameOrCopy, 'u' for        *)
(* Unmerged; an Untracked or Ignored record starts with '?' or '!' and     *)
(* one space.                                                              *)
DiscriminantOf(fn) ==
    IF fn = "parseChangedEntry" THEN "1"
    ELSE IF fn = "parseRenameOrCopyEntry" THEN "2"
    ELSE IF fn = "parseUnmergedEntry" THEN "u"
    ELSE IF fn = "parseUntrackedEntry" THEN "?"
    ELSE "!"

EntryDecoders ==
    {"parseChangedEntry", "parseRenameOrCopyEntry", "parseUnmergedEntry",
     "parseUntrackedEntry", "parseIgnoredEntry"}

C24_DiscriminantExact ==
    (call.done /\ call.fn \in EntryDecoders) =>
        (call.out.ok =>
            /\ Cut(call.arg, <<SP>>).found
            /\ Cut(call.arg, <<SP>>).before = <<DiscriminantOf(call.fn)>>)

(* C25: statusv1 parseEntry (LF mode).  A line of fewer than 3 bytes, or   *)
(* whose third byte is not a space, is an error.  Otherwise XY is bytes 0  *)
(* and 1, whatever they are, and, whatever XY is: if the rest holds        *)
(* " -> ", it is cut at the first one into OrigPath (before) and Path      *)
(* (after), an empty side being an error; if it does not, the rest is      *)
(* Path and OrigPath is empty, also when X or Y is 'R' or 'C'.             *)
WellFramed(line) == Len(line) >= 3 /\ line[3] = SP

PathPartV1(line) == SubSeq(line, 4, Len(line))

ArrowAt(s, i) == i + 3 <= Len(s) /\ SubSeq(s, i, i + 3) = arrow

HasArrow(s) == \E i \in 1..Len(s) : ArrowAt(s, i)

FirstArrow(s) == CHOOSE i \in 1..Len(s) : ArrowAt(s, i) /\ \A j \in 1..(i - 1) : ~ArrowAt(s, j)

EntryRule(line, rest, out) ==
    /\ ~WellFramed(line) => ~out.ok
    /\ (WellFramed(line) /\ HasArrow(rest)) =>
          IF FirstArrow(rest) = 1 \/ FirstArrow(rest) + 3 = Len(rest)
          THEN ~out.ok
          ELSE /\ out.ok
               /\ out.entry = [XY |-> <<line[1], line[2]>>,
                               Path |-> SubSeq(rest, FirstArrow(rest) + 4, Len(rest)),
                               OrigPath |-> SubSeq(rest, 1, FirstArrow(rest) - 1)]
    /\ (WellFramed(line) /\ ~HasArrow(rest)) =>
          /\ out.ok
          /\ out.entry = [XY |-> <<line[1], line[2]>>, Path |-> rest, OrigPath |-> <<>>]

C25_ParseEntry ==
    Called("parseEntry") => EntryRule(call.arg, PathPartV1(call.arg), call.out)

(* the marker twice, under an XY without 'R' or 'C': cut at the first      *)
C25_Witness ==
    /\ Called("parseEntry")
    /\ call.arg = <<"M", SP, SP, "a">> \o arrow \o arrow
    /\ call.out.ok
    /\ call.out.entry.OrigPath = <<"a">>
    /\ call.out.entry.Path = arrow

(* C26: statusv1 parseEntryZ (NUL mode).  A record of fewer than 3 bytes,  *)
(* or whose third byte is not a space, is an error.  An entry has a        *)
(* non-empty OrigPath only if X or Y is 'R' or 'C' and the path part       *)
(* holds a NUL; then Path is the bytes before the first NUL and OrigPath   *)
(* all the bytes after it.  An XY with 'R' or 'C' and no NUL is no error:  *)
(* the whole path part is Path.                                            *)
RenameOrCopyXY(line) == line[1] \in {"R", "C"} \/ line[2] \in {"R", "C"}

EntryZRule(line, rest, out) ==
    /\ ~WellFramed(line) => ~out.ok
    /\ WellFramed(line) => out.ok /\ out.entry.XY = <<line[1], line[2]>>
    /\ (out.ok /\ out.entry.OrigPath # <<>>) =>
          RenameOrCopyXY(line) /\ Occurrences(rest, NUL) >= 1
    /\ (WellFramed(line) /\ RenameOrCopyXY(line) /\ Occurrences(rest, NUL) >= 1) =>
          /\ out.entry.Path = SubSeq(rest, 1, IndexByte(rest, NUL))
          /\ out.entry.OrigPath = SubSeq(rest, IndexByte(rest, NUL) + 2, Len(rest))
    /\ (WellFramed(line) /\ RenameOrCopyXY(line) /\ Occurrences(rest, NUL) = 0) =>
          /\ out.entry.Path = rest
          /\ out.entry.OrigPath = <<>>

C26_ParseEntryZ ==
    Called("parseEntryZ") => EntryZRule(call.arg, PathPartV1(call.arg), call.out)

(* a copy in the Y position with two NULs: the second NUL stays in         *)
(* OrigPath                                                                *)
C26_Witness ==
    /\ Called("parseEntryZ")
    /\ call.arg = <<SP, "C", SP, "a", NUL, NUL>>
    /\ call.out.ok
    /\ call.out.entry.Path = <<"a">>
    /\ call.out.entry.OrigPath = <<NUL>>

(* C27: both formats, both modes: when the decode returns a non-nil error, *)
(* from a record decoder or from the tokenizer, the returned Status is     *)
(* nil.                                                                    *)
C27_NilStatusOnError ==
    (pc = "done" /\ err # "nil") => ret = "nil"

(* C28: progress of the NUL tokenizers.  For every buffer and either value *)
(* of atEOF the split function returns 0 <= advance <= len(buffer) and a   *)
(* token that is a span of the buffer; with a token, advance >= 1; at the  *)
(* end of the stream with a non-empty buffer the answer is a token or an   *)
(* error, never a request for more bytes.  Hence the spans of the tokens   *)
(* follow one another from byte 0, there are no more tokens than input     *)
(* bytes, and a scan that ends without an error has consumed every byte.   *)
SplitProgress(data, atEOF, sp) ==
    /\ ~sp.fault
    /\ 0 <= sp.advance /\ sp.advance <= Len(data)
    /\ IsPrefixOf(sp.token, data)
    /\ sp.has => sp.advance >= 1 /\ Len(sp.token) <= sp.advance
    /\ (atEOF /\ Len(data) > 0) => (sp.has \/ sp.err)

SpansFollow ==
    /\ Len(spans) = Len(tokens)
    /\ \A i \in 1..Len(spans) :
          /\ spans[i][1] = (IF i = 1 THEN 0 ELSE spans[i - 1][1] + spans[i - 1][2])
          /\ spans[i][2] >= 1
    /\ consumed = (IF Len(spans) = 0 THEN 0
                   ELSE spans[Len(spans)][1] + spans[Len(spans)][2])

WithEmptyRecordAt(rs, i) == SubSeq(rs, 1, i - 1) \o << <<>> >> \o SubSeq(rs, i, Len(rs))

C29_ExtraNUL ==
    (/\ pc = "done" /\ mode = "z" /\ family = "terminated"
     /\ \A i \in 1..Len(recs) : recs[i] \in Valid(format, mode)) =>
        \A i \in 1..Len(recs) :
            WholeParse(format, mode, Concat(WithEmptyRecordAt(recs, i), NUL, TRUE)) = Returned

(* C30: statusv2: in every Status the counters are non-negative: Ahead and *)
(* Behind when Branch is present, Count when Stash is present, also for    *)
(* header values that carry a sign.                                        *)
NonNegativeCounters(st) ==
    /\ st.Branch # <<>> => st.Branch[1].Ahead >= 0 /\ st.Branch[1].Behind >= 0
    /\ st.Stash # <<>> => st.Stash[1].Count >= 0

C30_NonNegativeCounters ==
    Called("parse") => \A i \in 1..Len(call.out) : NonNegativeCounters(call.out[i])

====
